---- MODULE Spec2Model ----
(***************************************************************************)
(* FinBot (src/bot.py): a Telegram personal-finance bot.  The model covers *)
(* the transaction interpreter (call_gemini_natural_language), the pending *)
(* expense dialogue (addgasto -> button_handler -> handle_date_response),  *)
(* the ledger tables of init_database and the commands that write and read *)
(* them.                                                                   *)
(*                                                                         *)
(* Representation.  A Python str is a sequence of one-character strings    *)
(* (category names and "R$" are single tokens, none of which contains      *)
(* "|", "." or ",").  A Python float is an exact decimal: the parser       *)
(* yields [ok, m, e] meaning m * 10^(-e) in lowest form, and every amount  *)
(* stored in the ledger is an integer number of centavos (binary rounding  *)
(* of IEEE doubles is not modelled).  A date is a day number.              *)
(***************************************************************************)
EXTENDS Integers, Sequences, FiniteSets, TLC

\* ------------------------------------------------------------------ bounds

MaxAmountLen == 5

\* Rows a table may hold in the dialogue specification.
MaxGastos == 1

MaxVales == 1

MaxReceitas == 1

MaxParceiro == 1

\* Rows of gastos in the card statement specification.
MaxGastosFatura == 2

MaxFixos == 1

\* Rows of metas, and how far below zero a goal's valor_atual may be drawn.
MaxMetas == 2

MaxRetirada == 5000

MaxCategorias == 3

\* Rows of gastos in the /top3 specification.
MaxGastosTop3 == 4

\* Rows of orcamento, and the months the clock may reach.
MaxOrcamento == 3

MaxMeses == 2

MaxLembretes == 1

MaxRecorrentes == 1

\* ----------------------------------------------------------------- strings

DigitChars == {"0", "1", "2", "3", "4", "5", "6", "7", "8", "9"}

DigitVal(c) ==
    CASE c = "0" -> 0 [] c = "1" -> 1 [] c = "2" -> 2 [] c = "3" -> 3
      [] c = "4" -> 4 [] c = "5" -> 5 [] c = "6" -> 6 [] c = "7" -> 7
      [] c = "8" -> 8 [] c = "9" -> 9

DigitChar(d) == <<"0", "1", "2", "3", "4", "5", "6", "7", "8", "9">>[d + 1]

RECURSIVE Pow10(_)
Pow10(n) == IF n = 0 THEN 1 ELSE 10 * Pow10(n - 1)

\* str.replace(old, new) for a one-character old and a string new.
RECURSIVE Replace(_, _, _)
Replace(s, old, new) ==
    IF s = <<>> THEN <<>>
    ELSE (IF Head(s) = old THEN new ELSE <<Head(s)>>) \o Replace(Tail(s), old, new)

Contains(s, c) == \E i \in 1..Len(s) : s[i] = c

\* str.strip(): leading and trailing blanks removed.
RECURSIVE LStrip(_)
LStrip(s) == IF s # <<>> /\ Head(s) = " " THEN LStrip(Tail(s)) ELSE s

RECURSIVE RStrip(_)
RStrip(s) ==
    IF s # <<>> /\ s[Len(s)] = " " THEN RStrip(SubSeq(s, 1, Len(s) - 1)) ELSE s

Strip(s) == RStrip(LStrip(s))

\* str.split(sep): the pieces between occurrences of sep (always >= 1 piece).
RECURSIVE SplitAcc(_, _, _)
SplitAcc(s, sep, cur) ==
    IF s = <<>> THEN <<cur>>
    ELSE IF Head(s) = sep THEN <<cur>> \o SplitAcc(Tail(s), sep, <<>>)
    ELSE SplitAcc(Tail(s), sep, Append(cur, Head(s)))

Split(s, sep) == SplitAcc(s, sep, <<>>)

\* " ".join(parts)
RECURSIVE Join(_)
Join(parts) ==
    IF parts = <<>> THEN <<>>
    ELSE IF Len(parts) = 1 THEN parts[1]
    ELSE parts[1] \o <<" ">> \o Join(Tail(parts))

\* ------------------------------------------------------------------ floats

NaF == [ok |-> FALSE, m |-> 0, e |-> 0]

RECURSIVE Lowest(_, _)
Lowest(m, e) ==
    IF e > 0 /\ m % 10 = 0 THEN Lowest(m \div 10, e - 1)
    ELSE [ok |-> TRUE, m |-> m, e |-> e]

RECURSIVE DigitsVal(_)
DigitsVal(s) ==
    IF s = <<>> THEN 0 ELSE 10 * DigitsVal(SubSeq(s, 1, Len(s) - 1)) + DigitVal(s[Len(s)])

AllDigits(s) == \A i \in 1..Len(s) : s[i] \in DigitChars

\* float(s) of an unsigned literal: digits with at most one ".", one digit at least.
UnsignedFloat(s) ==
    LET parts == Split(s, ".") IN
    IF Len(parts) > 2 THEN NaF
    ELSE LET ip == parts[1]
             fp == IF Len(parts) = 2 THEN parts[2] ELSE <<>>
         IN IF AllDigits(ip) /\ AllDigits(fp) /\ Len(ip) + Len(fp) > 0
            THEN Lowest(DigitsVal(ip \o fp), Len(fp))
            ELSE NaF

\* Python's float(str): surrounding blanks and one leading sign are accepted
\* (exponents, "inf", "nan" and "_" are outside the alphabet enumerated here).
ParseFloat(s) ==
    LET t == Strip(s) IN
    IF t # <<>> /\ Head(t) \in {"-", "+"}
    THEN LET u == UnsignedFloat(Tail(t)) IN
         IF u.ok /\ Head(t) = "-" THEN [u EXCEPT !.m = 0 - u.m] ELSE u
    ELSE UnsignedFloat(t)

\* Python's int(str): surrounding blanks, one leading sign, decimal digits.
ParseInt(s) ==
    LET t == Strip(s)
        d == IF t # <<>> /\ Head(t) \in {"-", "+"} THEN Tail(t) ELSE t
    IN IF d # <<>> /\ AllDigits(d)
       THEN [ok |-> TRUE, n |-> IF Head(t) = "-" THEN 0 - DigitsVal(d) ELSE DigitsVal(d)]
       ELSE [ok |-> FALSE, n |-> 0]

\* The float as an amount of the ledger, in centavos (inputs have e <= 2).
Centavos(v) == IF v.e <= 2 THEN v.m * Pow10(2 - v.e) ELSE v.m \div Pow10(v.e - 2)

RECURSIVE NatStr(_)
NatStr(n) == IF n < 10 THEN <<DigitChar(n)>> ELSE NatStr(n \div 10) \o <<DigitChar(n % 10)>>

\* f"{valor}" of a float held in centavos: repr(float), "50.0", "7.5", "-0.25".
FloatStr(c) ==
    LET a  == IF c < 0 THEN 0 - c ELSE c
        fr == a % 100
        fs == IF fr % 10 = 0 THEN <<DigitChar(fr \div 10)>>
              ELSE <<DigitChar(fr \div 10), DigitChar(fr % 10)>>
    IN (IF c < 0 THEN <<"-">> ELSE <<>>) \o NatStr(a \div 100) \o <<".">> \o fs

\* ------------------------------------------------------------- interpreter

\* An optional value (a dict key that may be missing): <<>> or <<v>>.
Some(v) == <<v>>
Missing == <<>>

\* What call_gemini_natural_language returns: None, or the result dict.
Nenhum ==
    [some |-> FALSE, type |-> "", confidence |-> Missing, amount |-> Missing,
     description |-> Missing]

\* One answer of the text-completion service.  kind "http_error": a status other
\* than 200; "exception": httpx raises, or the body is not the expected JSON
\* (response.json(), the candidates path, json.loads or .get raise); "json": raw_text
\* parses to a dict with these keys, amount given as str(result["amount"]).
HttpError == [kind |-> "http_error", type |-> "", confidence |-> Missing,
              amount |-> Missing, description |-> Missing]

Excecao == [kind |-> "exception", type |-> "", confidence |-> Missing,
            amount |-> Missing, description |-> Missing]

\* Status 200 with a body that is not the expected JSON: lines 215-218 raise.
Malformado == [kind |-> "malformed", type |-> "", confidence |-> Missing,
               amount |-> Missing, description |-> Missing]

Json(type, confidence, amount, description) ==
    [kind |-> "json", type |-> type, confidence |-> confidence, amount |-> amount,
     description |-> description]

\* Lines 225-233: the amount string as handed to float().
AmountStr(raw) ==
    LET amount_str == Strip(Replace(Replace(raw, ",", <<".">>), "R$", <<>>)) IN
    IF Contains(amount_str, ".") /\ Contains(amount_str, ",")
    THEN LET parts        == Split(amount_str, ",")
             integer_part == Replace(parts[1], ".", <<>>)
             decimal_part == IF Len(parts) > 1 THEN parts[2] ELSE <<"0", "0">>
         IN integer_part \o <<".">> \o decimal_part
    ELSE IF Contains(amount_str, ",") THEN Replace(amount_str, ",", <<".">>)
    ELSE amount_str

\* Lines 223-235: result["amount"] after normalization; ok = FALSE is the
\* ValueError that makes the call return None.
NormalizeAmount(raw) == ParseFloat(AmountStr(raw))

\* result.get("confidence", 0)
ConfidenceOf(r) == IF r.confidence = Missing THEN 0 ELSE r.confidence[1]

\* Mutant of Rejeita: a missing confidence passes (.get("confidence", 100)).
RejeitaSemPadrao(r) ==
    r.type = "none" \/ (r.confidence # Missing /\ r.confidence[1] < 60)

\* Line 220: the result is dropped.
Rejeita(r) == r.type = "none" \/ ConfidenceOf(r) < 60

\* Mutant of Attempt: a dropped result is asked for again.
AttemptRepeteRejeicao(r) ==
    IF r.kind # "json" \/ Rejeita(r) THEN [act |-> "retry", value |-> Nenhum]
    ELSE IF r.amount = Missing
    THEN [act |-> "return",
          value |-> [some |-> TRUE, type |-> r.type, confidence |-> r.confidence,
                     amount |-> Missing, description |-> r.description]]
    ELSE LET v == NormalizeAmount(r.amount[1]) IN
         IF ~v.ok THEN [act |-> "return", value |-> Nenhum]
         ELSE [act |-> "return",
               value |-> [some |-> TRUE, type |-> r.type, confidence |-> r.confidence,
                          amount |-> Some(v), description |-> r.description]]

\* One pass of the loop body (lines 206-243) on the answer r:
\* "retry" (continue / fall through the except), or "return" with a value.
Attempt(r) ==
    IF r.kind # "json" THEN [act |-> "retry", value |-> Nenhum]
    ELSE IF Rejeita(r)
    THEN [act |-> "return", value |-> Nenhum]
    ELSE IF r.amount = Missing
    THEN [act |-> "return",
          value |-> [some |-> TRUE, type |-> r.type, confidence |-> r.confidence,
                     amount |-> Missing, description |-> r.description]]
    ELSE LET v == NormalizeAmount(r.amount[1]) IN
         IF ~v.ok THEN [act |-> "return", value |-> Nenhum]
         ELSE [act |-> "return",
               value |-> [some |-> TRUE, type |-> r.type, confidence |-> r.confidence,
                          amount |-> Some(v), description |-> r.description]]

max_retries == 2

\* call_gemini_natural_language(text) when the service answers rs[1], rs[2], ...:
\* the value returned, the number of requests made and of time.sleep(1) calls.
RECURSIVE GeminiLoop(_, _)
GeminiLoop(rs, attempt) ==
    IF attempt >= max_retries
    THEN [value |-> Nenhum, requests |-> attempt, sleeps |-> 0]
    ELSE LET a == Attempt(rs[attempt + 1]) IN
         IF a.act = "return"
         THEN [value |-> a.value, requests |-> attempt + 1, sleeps |-> 0]
         ELSE LET rest == GeminiLoop(rs, attempt + 1) IN
              [rest EXCEPT !.sleeps =
                    @ + (IF attempt < max_retries - 1 THEN 1 ELSE 0)]

CallGemini(key, rs) ==
    IF ~key THEN [value |-> Nenhum, requests |-> 0, sleeps |-> 0]
    ELSE GeminiLoop(rs, 0)

\* ------------------------------------------------------------------- state

VARIABLES
    GEMINI_API_KEY,     \* whether the environment sets GEMINI_API_KEY (line 75)
    agora,              \* datetime.now().date(), a day number
    user_data,          \* context.user_data of each user: <<>> or [pending_gasto |-> draft]
    chat,               \* per user, the category keyboards the bot sent and has not edited away
    receitas, receitas_parceiro, gastos, fixos, vales, fatura_cartao,
    metas, lembretes, categorias, orcamento, recorrentes,
                        \* the tables of finbot.db, each a sequence of rows in rowid order
    metas_seq,          \* sqlite_sequence of metas: the last id AUTOINCREMENT gave
    reply,              \* the last message the bot sent
    posts,              \* the requests the last interpreter call made to the service
    amount_in,          \* probe of the amount normalization: the service's amount string
    amount_out          \* ... and what call_gemini_natural_language returned for it

env == <<GEMINI_API_KEY, agora>>

probe == <<amount_in, amount_out>>

tab_renda == <<receitas, receitas_parceiro, fixos>>

tab_gasto == <<gastos, vales, fatura_cartao>>

tab_metas == <<metas, metas_seq>>

tab_config == <<lembretes, categorias, orcamento, recorrentes>>

ledger == <<tab_renda, tab_gasto, tab_metas, tab_config>>

vars == <<env, user_data, chat, ledger, reply, posts, probe>>

Users == {"u1", "u2"}

\* The four categories of the keyboard (lines 605-608), as callback-data tokens.
Categorias == {"débito", "crédito", "alimentação", "pix"}

SemDescricao == <<"Sem descrição">>

SemResposta == [to |-> "", kind |-> "nenhuma"]

\* -------------------------------------------------------------------- dates

\* str.lower() on the tokens of the enumerated texts.
LowerTok(c) ==
    CASE c = "Ontem" -> "ontem" [] c = "HOJE" -> "hoje" [] OTHER -> c

Lower(s) == [i \in 1..Len(s) |-> LowerTok(s[i])]

\* The explicit date of the enumerated texts, "25/09/2024" for strptime's
\* '%d/%m/%Y' (line 147), and the day number it names.
DataExplicita == <<"25/09/2024">>

DiaExplicito == -40

\* dateparser.parse(date_str, languages=['pt']) on the enumerated texts: the
\* library knows "anteontem"; None (<<>>) for what it cannot read.
Dateparser(s, hoje) == IF s = <<"anteontem">> THEN <<hoje - 2>> ELSE <<>>

\* parse_date(date_str) when datetime.now().date() is hoje.
ParseDate(date_str, hoje) ==
    IF date_str = <<>> THEN hoje
    ELSE LET s == Lower(Strip(date_str)) IN
         IF s \in {<<"hoje">>, <<"today">>} THEN hoje
         ELSE IF s \in {<<"ontem">>, <<"yesterday">>} THEN hoje - 1
         ELSE IF s \in {<<"amanhã">>, <<"amanha">>, <<"tomorrow">>} THEN hoje + 1
         ELSE IF s = DataExplicita THEN DiaExplicito
         ELSE IF Dateparser(s, hoje) # <<>> THEN Dateparser(s, hoje)[1]
         ELSE hoje

\* ------------------------------------------------------------- aggregation

\* SELECT SUM(valor) FROM t ... or 0
RECURSIVE SumValor(_)
SumValor(t) == IF t = <<>> THEN 0 ELSE t[1].valor + SumValor(Tail(t))

\* SELECT SUM(valor) FROM gastos WHERE categoria = c ... or 0
RECURSIVE SumCategoria(_, _)
SumCategoria(t, c) ==
    IF t = <<>> THEN 0
    ELSE (IF t[1].categoria = c THEN t[1].valor ELSE 0) + SumCategoria(Tail(t), c)

\* saldo_vale (lines 676-680 and 789)
SaldoVale == SumValor(vales) - SumCategoria(gastos, <<"alimentação">>)

\* saldo_final of /saldo (line 793)
SaldoFinal ==
    SumValor(receitas) + SumValor(receitas_parceiro) + SaldoVale
        - SumValor(gastos) - SumValor(fixos)

\* ---------------------------------------------------------------- commands

\* try: valor = float(context.args[0]); descricao = " ".join(context.args[1:]) or
\* the default; IndexError / ValueError give ok = FALSE (the usage reply).
ArgsValorDescricao(args) ==
    IF args = <<>> THEN [ok |-> FALSE, valor |-> 0, descricao |-> <<>>]
    ELSE LET v == ParseFloat(args[1]) IN
         IF ~v.ok THEN [ok |-> FALSE, valor |-> 0, descricao |-> <<>>]
         ELSE [ok |-> TRUE, valor |-> Centavos(v),
               descricao |-> IF Len(args) > 1 THEN Join(Tail(args)) ELSE SemDescricao]

\* callback_data=f"{categoria}|{valor}|{descricao}"
CallbackData(categoria, valor, descricao) ==
    <<categoria, "|">> \o FloatStr(valor) \o <<"|">> \o descricao

\* The message with the four category buttons (lines 604-617, 2046-2059).
Teclado(valor, descricao) ==
    [valor |-> valor, descricao |-> descricao,
     callback_data |-> [c \in Categorias |-> CallbackData(c, valor, descricao)]]

\* 'pending_gasto' in context.user_data
HasPending(u) == "pending_gasto" \in DOMAIN user_data[u]

\* context.user_data['pending_gasto'].get(key)
PendingFlag(u, key) ==
    /\ HasPending(u)
    /\ key \in DOMAIN user_data[u].pending_gasto
    /\ user_data[u].pending_gasto[key]

\* /addgasto <valor> <descrição>
addgasto(u, args) ==
    LET p == ArgsValorDescricao(args) IN
    /\ IF ~p.ok
       THEN /\ reply' = [to |-> u, kind |-> "uso_addgasto"]
            /\ UNCHANGED <<user_data, chat>>
       ELSE /\ user_data' =
                [user_data EXCEPT ![u] =
                    [pending_gasto |->
                        [valor |-> p.valor, descricao |-> p.descricao,
                         waiting_for_category |-> TRUE]]]
            /\ chat' = [chat EXCEPT ![u] = @ \cup {Teclado(p.valor, p.descricao)}]
            /\ reply' = [to |-> u, kind |-> "selecione_categoria"]
    /\ UNCHANGED <<env, posts, ledger, probe>>

\* Mutant of button_handler: the category and the date flag are added to the
\* pending draft (dict.update) instead of replacing it.
button_handler_update(u, k, c) ==
    /\ k \in chat[u]
    /\ LET data_parts == Split(k.callback_data[c], "|") IN
       IF Len(data_parts) < 3 \/ ~ParseFloat(data_parts[2]).ok
       THEN UNCHANGED <<user_data, chat, reply>>
       ELSE /\ user_data' =
                [user_data EXCEPT ![u] =
                    [pending_gasto |->
                        [valor |-> Centavos(ParseFloat(data_parts[2])),
                         descricao |-> data_parts[3],
                         categoria |-> data_parts[1],
                         waiting_for_category |-> TRUE,
                         waiting_for_date |-> TRUE]]]
            /\ chat' = [chat EXCEPT ![u] = @ \ {k}]
            /\ reply' = [to |-> u, kind |-> "quando_foi"]
    /\ UNCHANGED <<env, posts, ledger, probe>>

\* The user u presses the button of category c under the message k.  A
\* data_parts[2] missing or not a float raises before user_data is touched;
\* query.edit_message_text without reply_markup removes the keyboard.
button_handler(u, k, c) ==
    /\ k \in chat[u]
    /\ LET data_parts == Split(k.callback_data[c], "|") IN
       IF Len(data_parts) < 3 \/ ~ParseFloat(data_parts[2]).ok
       THEN UNCHANGED <<user_data, chat, reply>>
       ELSE /\ user_data' =
                [user_data EXCEPT ![u] =
                    [pending_gasto |->
                        [valor |-> Centavos(ParseFloat(data_parts[2])),
                         descricao |-> data_parts[3],
                         categoria |-> data_parts[1],
                         waiting_for_date |-> TRUE]]]
            /\ chat' = [chat EXCEPT ![u] = @ \ {k}]
            /\ reply' = [to |-> u, kind |-> "quando_foi"]
    /\ UNCHANGED <<env, posts, ledger, probe>>

\* Mutant of SaldoInsuficiente: a balance equal to the amount is refused too.
SaldoInsuficienteIgual(pending_gasto) ==
    /\ pending_gasto.categoria = <<"alimentação">>
    /\ SaldoVale <= pending_gasto.valor

\* Mutant of SaldoInsuficiente: the balance is not tested.
SaldoInsuficienteNunca(pending_gasto) == FALSE

\* Lines 675-682: the food-voucher balance does not cover the draft.
SaldoInsuficiente(pending_gasto) ==
    /\ pending_gasto.categoria = <<"alimentação">>
    /\ SaldoVale < pending_gasto.valor

VaiParaFaturaSempre(pending_gasto) == TRUE

\* Line 668: the draft also goes to the card statement.
VaiParaFatura(pending_gasto) == pending_gasto.categoria = <<"crédito">>

\* handle_date_response: the text answers "Quando foi esse gasto?".  The
\* fatura_cartao insert of line 670 is on the same connection as the gastos
\* insert and commits with it (line 697); the insufficient-balance return closes
\* the connection without a commit.
handle_date_response(u, text) ==
    IF ~PendingFlag(u, "waiting_for_date")
    THEN UNCHANGED vars
    ELSE LET pending_gasto  == user_data[u].pending_gasto
             data_transacao == ParseDate(Strip(text), agora)
         IN /\ IF SaldoInsuficiente(pending_gasto)
               THEN /\ reply' = [to |-> u, kind |-> "saldo_insuficiente"]
                    /\ UNCHANGED <<gastos, fatura_cartao>>
               ELSE /\ gastos' =
                        Append(gastos,
                               [valor |-> pending_gasto.valor,
                                descricao |-> pending_gasto.descricao,
                                categoria |-> pending_gasto.categoria,
                                data |-> agora,
                                data_transacao |-> data_transacao,
                                pago |-> 0])
                    /\ fatura_cartao' =
                        IF VaiParaFatura(pending_gasto)
                        THEN Append(fatura_cartao,
                                    [descricao |-> pending_gasto.descricao,
                                     valor |-> pending_gasto.valor,
                                     data |-> agora, pago |-> 0])
                        ELSE fatura_cartao
                    /\ reply' = [to |-> u, kind |-> "gasto_registrado"]
            /\ user_data' = [user_data EXCEPT ![u] = <<>>]
            /\ UNCHANGED <<env, posts, chat, tab_renda, vales, tab_metas, tab_config, probe>>

\* handle_message past line 2012: the interpreter is asked, and answers rs.
\* float(None) of a result without "amount" raises before anything is written.
interpret_message(u, rs) ==
    LET result      == CallGemini(GEMINI_API_KEY, rs).value
        description == IF result.description = Missing THEN SemDescricao
                       ELSE result.description[1]
    IN IF ~result.some
       THEN /\ reply' = [to |-> u, kind |-> "nao_entendi"]
            /\ posts' = CallGemini(GEMINI_API_KEY, rs).requests
            /\ UNCHANGED <<env, user_data, chat, ledger, probe>>
       ELSE IF result.type \notin {"income", "expense"} \/ result.amount = Missing
       THEN /\ posts' = CallGemini(GEMINI_API_KEY, rs).requests
            /\ UNCHANGED <<env, user_data, chat, ledger, reply, probe>>
       ELSE IF result.type = "income"
       THEN /\ receitas' =
                Append(receitas,
                       [descricao |-> description,
                        valor |-> Centavos(result.amount[1]), data |-> agora])
            /\ reply' = [to |-> u, kind |-> "receita_automatica"]
            /\ posts' = CallGemini(GEMINI_API_KEY, rs).requests
            /\ UNCHANGED <<env, user_data, chat, receitas_parceiro, fixos, tab_gasto,
                           tab_metas, tab_config, probe>>
       ELSE /\ user_data' =
                [user_data EXCEPT ![u] =
                    [pending_gasto |->
                        [valor |-> Centavos(result.amount[1]),
                         descricao |-> description,
                         waiting_for_category |-> TRUE]]]
            /\ chat' = [chat EXCEPT ![u] =
                            @ \cup {Teclado(Centavos(result.amount[1]), description)}]
            /\ reply' = [to |-> u, kind |-> "gasto_identificado"]
            /\ posts' = CallGemini(GEMINI_API_KEY, rs).requests
            /\ UNCHANGED <<env, ledger, probe>>

handle_message_sem_prioridade(u, text, rs) == interpret_message(u, rs)

\* handle_message: a text that is not a command, from u.
handle_message(u, text, rs) ==
    IF PendingFlag(u, "waiting_for_date")
    THEN handle_date_response(u, text)
    ELSE interpret_message(u, rs)

\* /vale <valor>
vale(u, args) ==
    /\ IF args = <<>> \/ ~ParseFloat(args[1]).ok
       THEN /\ reply' = [to |-> u, kind |-> "uso_vale"]
            /\ UNCHANGED vales
       ELSE /\ vales' = Append(vales, [valor |-> Centavos(ParseFloat(args[1])),
                                       data |-> agora])
            /\ reply' = [to |-> u, kind |-> "vale_registrado"]
    /\ UNCHANGED <<env, posts, user_data, chat, tab_renda, gastos, fatura_cartao, tab_metas,
                   tab_config, probe>>

\* /saldo
saldo(u) ==
    /\ reply' = [to |-> u, kind |-> "saldo",
                 receitas |-> SumValor(receitas) + SumValor(receitas_parceiro),
                 vales |-> SumValor(vales), saldo_vale |-> SaldoVale,
                 gastos |-> SumValor(gastos), fixos |-> SumValor(fixos),
                 saldo |-> SaldoFinal]
    /\ UNCHANGED <<env, posts, user_data, chat, ledger, probe>>

\* /fatura
fatura(u) ==
    LET itens == SelectSeq(fatura_cartao, LAMBDA f : f.pago = 0) IN
    /\ reply' = [to |-> u, kind |-> "fatura",
                 total |-> SumCategoria(gastos, <<"crédito">>),
                 itens |-> [i \in 1..Len(itens) |-> <<itens[i].descricao, itens[i].valor>>]]
    /\ UNCHANGED <<env, posts, user_data, chat, ledger, probe>>

\* ------------------------------------------------------------------- goals

MetaSemNome == <<"Meta sem nome">>

\* /addmeta <valor> <nome>
addmeta(u, args) ==
    /\ IF args = <<>> \/ ~ParseFloat(args[1]).ok
       THEN /\ reply' = [to |-> u, kind |-> "uso_addmeta"]
            /\ UNCHANGED tab_metas
       ELSE /\ metas' =
                Append(metas,
                       [id |-> metas_seq + 1,
                        nome |-> IF Len(args) > 1 THEN Join(Tail(args)) ELSE MetaSemNome,
                        valor_alvo |-> Centavos(ParseFloat(args[1])),
                        valor_atual |-> 0,
                        concluida |-> 0])
            /\ metas_seq' = metas_seq + 1
            /\ reply' = [to |-> u, kind |-> "meta_criada", meta_id |-> metas_seq + 1]
    /\ UNCHANGED <<env, posts, user_data, chat, tab_renda, tab_gasto, tab_config, probe>>

MetaAtingidaEstrita(novo_valor, valor_alvo) == novo_valor > valor_alvo

\* Line 904
MetaAtingida(novo_valor, valor_alvo) == novo_valor >= valor_alvo

\* /progresso_meta <id> <valor>
progresso_meta(u, args) ==
    /\ IF Len(args) < 2 \/ ~ParseInt(args[1]).ok \/ ~ParseFloat(args[2]).ok
       THEN /\ reply' = [to |-> u, kind |-> "uso_progresso_meta"]
            /\ UNCHANGED tab_metas
       ELSE LET meta_id         == ParseInt(args[1]).n
                valor_adicional == Centavos(ParseFloat(args[2]))
                found           == { i \in 1..Len(metas) : metas[i].id = meta_id }
            IN IF found = {}
               THEN /\ reply' = [to |-> u, kind |-> "meta_nao_encontrada"]
                    /\ UNCHANGED tab_metas
               ELSE LET i          == CHOOSE i \in found : TRUE
                        novo_valor == metas[i].valor_atual + valor_adicional
                    IN IF metas[i].concluida # 0
                       THEN /\ reply' = [to |-> u, kind |-> "meta_ja_concluida"]
                            /\ UNCHANGED tab_metas
                       ELSE IF MetaAtingida(novo_valor, metas[i].valor_alvo)
                       THEN /\ metas' = [metas EXCEPT ![i] =
                                            [@ EXCEPT !.valor_atual = metas[i].valor_alvo,
                                                      !.concluida = 1]]
                            /\ reply' = [to |-> u, kind |-> "meta_concluida"]
                            /\ UNCHANGED metas_seq
                       ELSE /\ metas' = [metas EXCEPT ![i] =
                                            [@ EXCEPT !.valor_atual = novo_valor]]
                            \* novo_valor / valor_alvo (line 917) raises after the
                            \* commit when the target is 0: no message is sent.
                            /\ reply' = IF metas[i].valor_alvo = 0 THEN SemResposta
                                        ELSE [to |-> u, kind |-> "progresso_adicionado"]
                            /\ UNCHANGED metas_seq
    /\ UNCHANGED <<env, posts, user_data, chat, tab_renda, tab_gasto, tab_config, probe>>

\* --------------------------------------------------------------- categories

NomeExisteNunca(nome) == FALSE

\* nome TEXT NOT NULL UNIQUE (line 393): the INSERT raises IntegrityError.
NomeExiste(nome) == \E i \in 1..Len(categorias) : categorias[i].nome = nome

\* /addcategoria <nome>
addcategoria(u, args) ==
    LET nome == Join(args) IN
    /\ IF nome = <<>>
       THEN /\ reply' = [to |-> u, kind |-> "uso_addcategoria"]
            /\ UNCHANGED categorias
       ELSE IF NomeExiste(nome)
       THEN /\ reply' = [to |-> u, kind |-> "categoria_ja_existe", nome |-> nome]
            /\ UNCHANGED categorias
       ELSE /\ categorias' = Append(categorias, [nome |-> nome, data_criacao |-> agora])
            /\ reply' = [to |-> u, kind |-> "categoria_criada", nome |-> nome]
    /\ UNCHANGED <<env, posts, user_data, chat, tab_renda, tab_gasto, tab_metas,
                   lembretes, orcamento, recorrentes, probe>>

\* /removecategoria <nome>
removecategoria(u, args) ==
    LET nome == Join(args) IN
    /\ IF nome = <<>>
       THEN /\ reply' = [to |-> u, kind |-> "uso_removecategoria"]
            /\ UNCHANGED categorias
       ELSE IF \E i \in 1..Len(categorias) : categorias[i].nome = nome
       THEN /\ categorias' = SelectSeq(categorias, LAMBDA c : c.nome # nome)
            /\ reply' = [to |-> u, kind |-> "categoria_removida", nome |-> nome]
       ELSE /\ reply' = [to |-> u, kind |-> "categoria_nao_encontrada", nome |-> nome]
            /\ UNCHANGED categorias
    /\ UNCHANGED <<env, posts, user_data, chat, tab_renda, tab_gasto, tab_metas,
                   lembretes, orcamento, recorrentes, probe>>

\* --------------------------------------------------------------------- top 3

VemAntesEstrito(a, g) == a.valor > g.valor

\* ORDER BY valor DESC (line 1482) between a row a already placed and a row g of
\* a higher rowid: with a LIMIT, SQLite sorts on (valor, sequence number), so
\* among equal valor the lower rowid comes first.
VemAntes(a, g) == a.valor >= g.valor

RECURSIVE Inserir(_, _)
Inserir(s, g) ==
    IF s = <<>> THEN <<g>>
    ELSE IF VemAntes(Head(s), g) THEN <<Head(s)>> \o Inserir(Tail(s), g)
    ELSE <<g>> \o s

RECURSIVE OrderByValorDesc(_)
OrderByValorDesc(t) ==
    IF t = <<>> THEN <<>>
    ELSE Inserir(OrderByValorDesc(SubSeq(t, 1, Len(t) - 1)), t[Len(t)])

Limit(t, n) == SubSeq(t, 1, IF Len(t) < n THEN Len(t) ELSE n)

\* /top3
top3(u) ==
    LET top == Limit(OrderByValorDesc(gastos), 3) IN
    /\ reply' =
        IF top = <<>> THEN [to |-> u, kind |-> "nenhum_gasto"]
        ELSE [to |-> u, kind |-> "top3",
              top |-> [i \in 1..Len(top) |->
                          <<top[i].valor, top[i].descricao, top[i].categoria>>]]
    /\ UNCHANGED <<env, posts, user_data, chat, ledger, probe>>

\* ------------------------------------------------------ income, fixed, /mtp

\* /addreceita <valor> <descrição>
addreceita(u, args) ==
    LET a == ArgsValorDescricao(args) IN
    /\ IF ~a.ok
       THEN /\ reply' = [to |-> u, kind |-> "uso_addreceita"]
            /\ UNCHANGED receitas
       ELSE /\ receitas' = Append(receitas, [descricao |-> a.descricao,
                                             valor |-> a.valor, data |-> agora])
            /\ reply' = [to |-> u, kind |-> "receita_registrada"]
    /\ UNCHANGED <<env, posts, user_data, chat, receitas_parceiro, fixos, tab_gasto,
                   tab_metas, tab_config, probe>>

\* /addreceita_parceiro <valor> <descrição>
addreceita_parceiro(u, args) ==
    LET a == ArgsValorDescricao(args) IN
    /\ IF ~a.ok
       THEN /\ reply' = [to |-> u, kind |-> "uso_addreceita_parceiro"]
            /\ UNCHANGED receitas_parceiro
       ELSE /\ receitas_parceiro' =
                Append(receitas_parceiro, [descricao |-> a.descricao,
                                           valor |-> a.valor, data |-> agora])
            /\ reply' = [to |-> u, kind |-> "receita_parceiro_registrada"]
    /\ UNCHANGED <<env, posts, user_data, chat, receitas, fixos, tab_gasto,
                   tab_metas, tab_config, probe>>

\* /fixo <valor> <descrição>
fixo(u, args) ==
    LET a == ArgsValorDescricao(args) IN
    /\ IF ~a.ok
       THEN /\ reply' = [to |-> u, kind |-> "uso_fixo"]
            /\ UNCHANGED fixos
       ELSE /\ fixos' = Append(fixos, [descricao |-> a.descricao,
                                       valor |-> a.valor, data |-> agora])
            /\ reply' = [to |-> u, kind |-> "fixo_registrado"]
    /\ UNCHANGED <<env, posts, user_data, chat, receitas, receitas_parceiro, tab_gasto,
                   tab_metas, tab_config, probe>>

ParcelaEmReais(disponivel, pct) == ((disponivel * pct) \div 10000) * 100

\* disponivel * 0.50, 0.30, 0.15, 0.05 as fmt prints it, with two decimals
\* (lines 1554-1557, 113): pct per cent of disponivel, to the nearest centavo.
Parcela(disponivel, pct) == (disponivel * pct + 50) \div 100

\* /mtp
mtp(u) ==
    LET total_receitas == SumValor(receitas) + SumValor(receitas_parceiro)
        disponivel     == total_receitas - SumValor(fixos)
    IN /\ reply' =
            IF disponivel <= 0 THEN [to |-> u, kind |-> "mtp_alerta"]
            ELSE [to |-> u, kind |-> "mtp",
                  total_receitas |-> total_receitas,
                  fixos |-> SumValor(fixos),
                  disponivel |-> disponivel,
                  necessidades |-> Parcela(disponivel, 50),
                  prioridades |-> Parcela(disponivel, 30),
                  qualidade_vida |-> Parcela(disponivel, 15),
                  liberdade_financeira |-> Parcela(disponivel, 5)]
       /\ UNCHANGED <<env, posts, user_data, chat, ledger, probe>>

\* ------------------------------------------------------------------ budgets

\* now.month, now.year and now.day of the day number dia, in a calendar of
\* 31-day months that starts on day 1.
MesAno(dia) ==
    [mes |-> (((dia - 1) \div 31) % 12) + 1, ano |-> (dia - 1) \div 372,
     dia_mes |-> ((dia - 1) % 31) + 1]

\* UNIQUE(tipo, categoria, mes, ano) (line 407): SQLite holds a NULL distinct
\* from every value, NULL included, so a row of categoria NULL conflicts with none.
Conflita(row, nova) ==
    /\ row.tipo = nova.tipo
    /\ row.categoria # Missing /\ row.categoria = nova.categoria
    /\ row.mes = nova.mes /\ row.ano = nova.ano

\* INSERT OR REPLACE: the conflicting rows are deleted, the new row takes a new id.
InsertOrReplace(t, nova) ==
    Append(SelectSeq(t, LAMBDA row : ~Conflita(row, nova)), nova)

\* /orcamento <valor>
orcamento_cmd(u, args) ==
    /\ IF args = <<>> \/ ~ParseFloat(args[1]).ok
       THEN /\ reply' = [to |-> u, kind |-> "uso_orcamento"]
            /\ UNCHANGED orcamento
       ELSE /\ orcamento' =
                InsertOrReplace(orcamento,
                                [tipo |-> "geral", categoria |-> Missing,
                                 valor |-> Centavos(ParseFloat(args[1])),
                                 mes |-> MesAno(agora).mes, ano |-> MesAno(agora).ano])
            /\ reply' = [to |-> u, kind |-> "orcamento_definido"]
    /\ UNCHANGED <<env, posts, user_data, chat, tab_renda, tab_gasto, tab_metas,
                   lembretes, categorias, recorrentes, probe>>

\* /orcamento_categoria <categoria> <valor>
orcamento_categoria(u, args) ==
    /\ IF Len(args) < 2 \/ ~ParseFloat(args[Len(args)]).ok
       THEN /\ reply' = [to |-> u, kind |-> "uso_orcamento_categoria"]
            /\ UNCHANGED orcamento
       ELSE /\ orcamento' =
                InsertOrReplace(orcamento,
                                [tipo |-> "categoria",
                                 categoria |-> Some(Join(SubSeq(args, 1, Len(args) - 1))),
                                 valor |-> Centavos(ParseFloat(args[Len(args)])),
                                 mes |-> MesAno(agora).mes, ano |-> MesAno(agora).ano])
            /\ reply' = [to |-> u, kind |-> "orcamento_categoria_definido"]
    /\ UNCHANGED <<env, posts, user_data, chat, tab_renda, tab_gasto, tab_metas,
                   lembretes, categorias, recorrentes, probe>>

\* SELECT valor FROM orcamento WHERE tipo = 'geral' AND mes = ? AND ano = ? and
\* fetchone() (lines 1305-1309): the matching row of the lowest rowid, or 0.
OrcamentoMensal ==
    LET res == SelectSeq(orcamento,
                         LAMBDA row : /\ row.tipo = "geral"
                                      /\ row.mes = MesAno(agora).mes
                                      /\ row.ano = MesAno(agora).ano)
    IN IF res = <<>> THEN 0 ELSE res[1].valor

\* /dashboard
dashboard(u) ==
    LET total_gastos     == SumValor(gastos)
        orcamento_mensal == OrcamentoMensal
        saldo_final      == SumValor(receitas) + SumValor(receitas_parceiro)
                                - total_gastos - SumValor(fixos)
        alerta == IF orcamento_mensal > 0 /\ total_gastos * 100 >= 90 * orcamento_mensal
                  THEN "quase_esgotado"
                  ELSE IF orcamento_mensal > 0
                          /\ total_gastos * 100 >= 75 * orcamento_mensal
                  THEN "alerta_75"
                  ELSE "sob_controle"
    IN /\ reply' =
            [to |-> u, kind |-> "dashboard",
             receitas |-> SumValor(receitas) + SumValor(receitas_parceiro),
             gastos |-> total_gastos, fixos |-> SumValor(fixos),
             saldo |-> saldo_final,
             vales |-> SumValor(vales),
             gastos_alimentacao |-> SumCategoria(gastos, <<"alimentação">>),
             saldo_vale |-> SaldoVale,
             orcamento_mensal |-> orcamento_mensal,
             alerta |-> alerta,
             metas_ativas |-> Cardinality({ i \in 1..Len(metas) : metas[i].concluida = 0 }),
             lembretes_hoje |->
                Cardinality({ i \in 1..Len(lembretes) :
                                /\ lembretes[i].ativo = 1
                                /\ lembretes[i].dia_mes = MesAno(agora).dia_mes }),
             dica |-> IF saldo_final < 0 THEN "vermelho"
                      ELSE IF saldo_final < 50000 THEN "baixo" ELSE "positivo"]
       /\ UNCHANGED <<env, posts, user_data, chat, ledger, probe>>

\* The clock passes into the next month.
virar_mes ==
    /\ agora' = agora + 31
    /\ UNCHANGED <<GEMINI_API_KEY, user_data, chat, ledger, reply, posts, probe>>

\* ------------------------------------------------ reminders and recurring

LembreteSemDescricao == <<"Lembrete sem descrição">>

RecorrenteSemDescricao == <<"Recorrente sem descrição">>

\* Mutant of DiaValido: the range test is left out.
DiaValidoSempre(dia) == TRUE

\* if dia < 1 or dia > 31: raise ValueError (lines 1049, 1256)
DiaValido(dia) == dia >= 1 /\ dia <= 31

\* /addlembrete <dia> <descrição>
addlembrete(u, args) ==
    /\ IF args = <<>> \/ ~ParseInt(args[1]).ok \/ ~DiaValido(ParseInt(args[1]).n)
       THEN /\ reply' = [to |-> u, kind |-> "uso_addlembrete"]
            /\ UNCHANGED lembretes
       ELSE /\ lembretes' =
                Append(lembretes,
                       [descricao |-> IF Len(args) > 1 THEN Join(Tail(args))
                                      ELSE LembreteSemDescricao,
                        dia_mes |-> ParseInt(args[1]).n, ativo |-> 1,
                        data_criacao |-> agora])
            /\ reply' = [to |-> u, kind |-> "lembrete_criado"]
    /\ UNCHANGED <<env, posts, user_data, chat, tab_renda, tab_gasto, tab_metas,
                   categorias, orcamento, recorrentes, probe>>

\* /addrecorrente <valor> <dia> <descrição>
addrecorrente(u, args) ==
    /\ IF \/ Len(args) < 2
          \/ ~ParseFloat(args[1]).ok
          \/ ~ParseInt(args[2]).ok
          \/ ~DiaValido(ParseInt(args[2]).n)
       THEN /\ reply' = [to |-> u, kind |-> "uso_addrecorrente"]
            /\ UNCHANGED recorrentes
       ELSE /\ recorrentes' =
                Append(recorrentes,
                       [descricao |-> IF Len(args) > 2 THEN Join(SubSeq(args, 3, Len(args)))
                                      ELSE RecorrenteSemDescricao,
                        valor |-> Centavos(ParseFloat(args[1])),
                        dia_mes |-> ParseInt(args[2]).n, ativo |-> 1,
                        data_criacao |-> agora])
            /\ reply' = [to |-> u, kind |-> "recorrente_criado"]
    /\ UNCHANGED <<env, posts, user_data, chat, tab_renda, tab_gasto, tab_metas,
                   lembretes, categorias, orcamento, probe>>

\* -------------------------------------------------------------------- reset

\* The message with the buttons reset_confirm and reset_cancel (lines 1949-1953).
TecladoReset == [reset |-> TRUE]

\* /reset
reset(u) ==
    /\ chat' = [chat EXCEPT ![u] = @ \cup {TecladoReset}]
    /\ reply' = [to |-> u, kind |-> "reset_confirmacao"]
    /\ UNCHANGED <<env, posts, user_data, ledger, probe>>

ConfirmadoSempre(data) == TRUE

\* Line 1978
Confirmado(data) == data = "reset_confirm"

\* reset_button_handler: u presses the button data of a /reset message.  The
\* DELETEs leave sqlite_sequence, and with it the next id of metas, as it is.
reset_button_handler(u, data) ==
    /\ TecladoReset \in chat[u]
    /\ chat' = [chat EXCEPT ![u] = @ \ {TecladoReset}]
    /\ IF Confirmado(data)
       THEN /\ receitas' = <<>> /\ receitas_parceiro' = <<>> /\ gastos' = <<>>
            /\ fixos' = <<>> /\ vales' = <<>> /\ fatura_cartao' = <<>>
            /\ metas' = <<>> /\ lembretes' = <<>> /\ categorias' = <<>>
            /\ orcamento' = <<>> /\ recorrentes' = <<>>
            /\ reply' = [to |-> u, kind |-> "reset_feito"]
            /\ UNCHANGED metas_seq
       ELSE /\ reply' = [to |-> u, kind |-> "reset_cancelado"]
            /\ UNCHANGED ledger
    /\ UNCHANGED <<env, posts, user_data, probe>>

\* ------------------------------------------------- the dialogue specification

\* init_database on a new finbot.db, and a started Application: empty tables, no
\* user_data, nothing sent (InitSessao leaves gastos to the specification).
InitSessao ==
    /\ agora = 1
    /\ user_data = [u \in Users |-> <<>>]
    /\ chat = [u \in Users |-> {}]
    /\ receitas = <<>> /\ receitas_parceiro = <<>> /\ fixos = <<>>
    /\ vales = <<>> /\ fatura_cartao = <<>> /\ metas = <<>> /\ lembretes = <<>>
    /\ categorias = <<>> /\ orcamento = <<>> /\ recorrentes = <<>>
    /\ metas_seq = 0
    /\ reply = SemResposta
    /\ posts = 0

InitBot == InitSessao /\ gastos = <<>>

SemProbe == [done |-> FALSE, value |-> Nenhum]

Init ==
    /\ InitBot
    /\ GEMINI_API_KEY = TRUE
    /\ amount_in = <<>>
    /\ amount_out = SemProbe

\* Inputs of the dialogue specification.
Cinquenta == <<"5", "0">>

GastoArgs ==
    { <<>>, << <<"a", "b", "c">> >>, << Cinquenta, <<"x">> >>,
      << Cinquenta, <<"a", "|", "b">> >> }

ValeArgs == { <<>>, << <<"a", "b", "c">> >>, << Cinquenta >> }

DateTexts == { <<"ontem">>, <<" ", "Ontem", " ">> }

TextoLivre == <<"g", "a", "s", "t", "e", "i">>

JsonRespostas ==
    { Json(t, c, a, Some(<<"x">>)) :
        t \in {"income", "expense", "none"},
        c \in {Missing, Some(59), Some(60)},
        a \in {Missing, Some(Cinquenta)} }

Respostas == JsonRespostas \cup {HttpError, Excecao}

\* The answers of one call: a second one is asked for only after a failed first.
RespostasSeq ==
    { <<r, Excecao>> : r \in JsonRespostas }
        \cup { <<e, r>> : e \in {HttpError, Excecao},
                          r \in {Excecao, HttpError,
                                 Json("expense", Some(60), Some(Cinquenta), Some(<<"x">>)),
                                 Json("income", Some(59), Some(Cinquenta), Some(<<"x">>))} }

\* The dialogue specification follows one user; the ledger is the shared one.
Dialogantes == {"u1"}

Next ==
    \/ \E u \in Dialogantes, args \in GastoArgs : addgasto(u, args)
    \/ \E u \in Dialogantes : \E k \in chat[u] : \E c \in Categorias :
            button_handler(u, k, c)
    \/ \E u \in Dialogantes, text \in DateTexts :
            /\ PendingFlag(u, "waiting_for_date")
            /\ Len(gastos) < MaxGastos
            /\ handle_message(u, text, <<Excecao, Excecao>>)
    \/ \E u \in Dialogantes, rs \in RespostasSeq :
            /\ ~PendingFlag(u, "waiting_for_date")
            /\ Len(receitas) < MaxReceitas
            /\ handle_message(u, TextoLivre, rs)
    \/ \E u \in Dialogantes, args \in ValeArgs :
            /\ Len(vales) < MaxVales
            /\ vale(u, args)
    \/ \E u \in Dialogantes : saldo(u)

Spec == Init /\ [][Next]_vars

\* The interpreter and the category prompt alone: no date is ever answered.
NextInterprete ==
    \/ \E u \in Dialogantes, args \in GastoArgs : addgasto(u, args)
    \/ \E u \in Dialogantes : \E k \in chat[u] : \E c \in Categorias :
            button_handler(u, k, c)
    \/ \E u \in Dialogantes, rs \in RespostasSeq :
            /\ ~PendingFlag(u, "waiting_for_date")
            /\ Len(receitas) < MaxReceitas
            /\ handle_message(u, TextoLivre, rs)

SpecInterprete == Init /\ [][NextInterprete]_vars

\* Plain-text messages alone: one user, any text in any dialogue state, and a
\* service that would understand the text if it were asked.
TextosMensagem == { <<"ontem">>, TextoLivre }

RespostasMensagem ==
    { <<Excecao, Excecao>>,
      <<Json("income", Some(90), Some(Cinquenta), Some(<<"x">>)), Excecao>>,
      <<Json("expense", Some(90), Some(Cinquenta), Some(<<"y">>)), Excecao>>,
      <<Json("income", Some(90), Some(Cinquenta), Some(<<"vale alimentação">>)),
        Excecao>> }

NextMensagem ==
    \/ \E u \in Dialogantes : addgasto(u, << Cinquenta, <<"x">> >>)
    \/ \E u \in Dialogantes : \E k \in chat[u] : \E c \in Categorias :
            button_handler(u, k, c)
    \/ \E u \in Dialogantes, text \in TextosMensagem, rs \in RespostasMensagem :
            /\ Len(gastos) < MaxGastos
            /\ Len(receitas) < MaxReceitas
            /\ handle_message(u, text, rs)

SpecMensagem == Init /\ [][NextMensagem]_vars

\* The card statement alone: expenses of two amounts, on credit or not.
FaturaArgs == { << Cinquenta, <<"x">> >>, << <<"2", "0">>, <<"y">> >> }

BotoesFatura == {"crédito", "pix"}

NextFatura ==
    \/ \E u \in Dialogantes, args \in FaturaArgs : addgasto(u, args)
    \/ \E u \in Dialogantes : \E k \in chat[u] : \E c \in BotoesFatura :
            button_handler(u, k, c)
    \/ \E u \in Dialogantes :
            /\ PendingFlag(u, "waiting_for_date")
            /\ Len(gastos) < MaxGastosFatura
            /\ handle_message(u, <<"ontem">>, <<Excecao, Excecao>>)
    \/ \E u \in Dialogantes : fatura(u)

SpecFatura == Init /\ [][NextFatura]_vars

\* Reset alone, from an empty ledger or from one with a row in every table
\* (as "/addreceita 50 x", "/addreceita_parceiro 50 x", "/addgasto 50 x" on
\* credit answered "ontem", "/fixo 50 x", "/vale 50", "/addmeta 50 x",
\* "/addlembrete 5 x", "/addcategoria x", "/orcamento 50" and
\* "/addrecorrente 50 5 x" leave it).
InitReset ==
    /\ agora = 1
    /\ GEMINI_API_KEY = TRUE
    /\ user_data = [u \in Users |-> <<>>]
    /\ chat = [u \in Users |-> {}]
    /\ reply = SemResposta
    /\ posts = 0
    /\ amount_in = <<>>
    /\ amount_out = SemProbe
    /\ \E cheio \in BOOLEAN :
        LET t(row) == IF cheio THEN <<row>> ELSE <<>> IN
        /\ receitas = t([descricao |-> <<"x">>, valor |-> 5000, data |-> 1])
        /\ receitas_parceiro = t([descricao |-> <<"x">>, valor |-> 5000, data |-> 1])
        /\ gastos = t([valor |-> 5000, descricao |-> <<"x">>, categoria |-> <<"crédito">>,
                       data |-> 1, data_transacao |-> 0, pago |-> 0])
        /\ fixos = t([descricao |-> <<"x">>, valor |-> 5000, data |-> 1])
        /\ vales = t([valor |-> 5000, data |-> 1])
        /\ fatura_cartao = t([descricao |-> <<"x">>, valor |-> 5000, data |-> 1, pago |-> 0])
        /\ metas = t([id |-> 1, nome |-> <<"x">>, valor_alvo |-> 5000, valor_atual |-> 0,
                      concluida |-> 0])
        /\ metas_seq = IF cheio THEN 1 ELSE 0
        /\ lembretes = t([descricao |-> <<"x">>, dia_mes |-> 5, ativo |-> 1,
                          data_criacao |-> 1])
        /\ categorias = t([nome |-> <<"x">>, data_criacao |-> 1])
        /\ orcamento = t([tipo |-> "geral", categoria |-> Missing, valor |-> 5000,
                          mes |-> 1, ano |-> 0])
        /\ recorrentes = t([descricao |-> <<"x">>, valor |-> 5000, dia_mes |-> 5,
                            ativo |-> 1, data_criacao |-> 1])

LembreteArgs == { <<>>, << <<"0">> >>, << <<"5">>, <<"x">> >>, << <<"3", "1">> >> }

RecorrenteArgs ==
    { << Cinquenta >>, << Cinquenta, <<"3", "2">> >>, << Cinquenta, <<"5">>, <<"x">> >>,
      << <<"-", "5", "0">>, <<"5">> >> }

NextReset ==
    \/ \E u \in Users : reset(u)
    \/ \E u \in Users, data \in {"reset_confirm", "reset_cancel"} :
            reset_button_handler(u, data)
    \/ \E u \in Users, args \in LembreteArgs :
            /\ Len(lembretes) < MaxLembretes
            /\ addlembrete(u, args)
    \/ \E u \in Users, args \in RecorrenteArgs :
            /\ Len(recorrentes) < MaxRecorrentes
            /\ addrecorrente(u, args)

SpecReset == InitReset /\ [][NextReset]_vars

\* Two users in dialogue at once, each in a private chat with the bot.
UsuariosArgs == { << Cinquenta, <<"x">> >>, << Cinquenta, <<"a", "|", "b">> >> }

NextUsuarios ==
    \/ \E u \in Users, args \in UsuariosArgs : addgasto(u, args)
    \/ \E u \in Users : \E k \in chat[u] : button_handler(u, k, "pix")
    \/ \E u \in Users :
            /\ PendingFlag(u, "waiting_for_date")
            /\ Len(gastos) < MaxGastos
            /\ handle_message(u, <<"ontem">>, <<Excecao, Excecao>>)

SpecUsuarios == Init /\ [][NextUsuarios]_vars

\* ------------------------------------- the amount normalization, on its own

AmountAlphabet == {"0", "1", ".", ","}

AmountStrings == UNION { [1..n -> AmountAlphabet] : n \in 1..MaxAmountLen }

InitAmount ==
    /\ InitBot
    /\ GEMINI_API_KEY \in BOOLEAN
    /\ amount_in \in AmountStrings
    /\ amount_out = SemProbe

\* One call whose first answer is a confident expense with the amount amount_in.
normalizar ==
    /\ ~amount_out.done
    /\ amount_out' =
        [done |-> TRUE,
         value |-> CallGemini(GEMINI_API_KEY,
                              << Json("expense", Some(90), Some(amount_in), Some(<<"x">>)),
                                 Excecao >>).value]
    /\ UNCHANGED <<env, user_data, chat, ledger, reply, posts, amount_in>>

SpecAmount == InitAmount /\ [][normalizar]_vars

\* ----------------------------------------------------- the goals, on their own

MetaArgs ==
    { <<>>, << <<"x">> >>, << <<"5", "0">> >>, << <<"1", "0", "0">>, <<"a">>, <<"b">> >> }

\* The well-formed /progresso_meta commands, with the id and the contribution
\* (in centavos) they write.
EntradaProgresso ==
    { [args |-> <<i.s, v.s>>, id |-> i.n, valor |-> v.n] :
        i \in { [s |-> <<"1">>, n |-> 1], [s |-> <<"2">>, n |-> 2],
                [s |-> <<"3">>, n |-> 3] },
        v \in { [s |-> <<"5", "0">>, n |-> 5000], [s |-> <<"1", "0", "0">>, n |-> 10000],
                [s |-> <<"-", "5", "0">>, n |-> 0 - 5000] } }

ProgressoArgs ==
    { e.args : e \in EntradaProgresso }
        \cup { << <<"1">> >>, << <<"x">>, <<"5", "0">> >>, << <<"1">>, <<"x">> >> }

NextMetas ==
    \/ \E u \in Dialogantes, args \in MetaArgs :
            /\ Len(metas) < MaxMetas
            /\ addmeta(u, args)
    \/ \E u \in Dialogantes, args \in ProgressoArgs :
            /\ progresso_meta(u, args)
            /\ \A i \in 1..Len(metas') : metas'[i].valor_atual >= 0 - MaxRetirada

SpecMetas == Init /\ [][NextMetas]_vars

\* ------------------------------------------------ the categories, on their own

\* The /addcategoria and /removecategoria commands with a name, and the name.
EntradaCategoria ==
    { [args |-> << <<"a">> >>, nome |-> <<"a">>],
      [args |-> << <<"A">> >>, nome |-> <<"A">>],
      [args |-> << <<"b">> >>, nome |-> <<"b">>],
      [args |-> << <<"a">>, <<"b">> >>, nome |-> <<"a", " ", "b">>] }

CategoriaArgs == { e.args : e \in EntradaCategoria } \cup { <<>> }

NextCategorias ==
    \/ \E u \in Users, args \in CategoriaArgs :
            /\ Len(categorias) < MaxCategorias
            /\ addcategoria(u, args)
    \/ \E u \in Users, args \in CategoriaArgs : removecategoria(u, args)

SpecCategorias == Init /\ [][NextCategorias]_vars

\* ----------------------------------------------------------- /top3, on its own

\* The rows the dialogue stores for "/addgasto 10 x", "/addgasto 10 y",
\* "/addgasto 20 x", "/addgasto 20 y" with the button pix and the answer "ontem".
LinhasTop3 ==
    { [valor |-> v, descricao |-> d, categoria |-> <<"pix">>, data |-> 1,
       data_transacao |-> 0, pago |-> 0] :
        v \in {1000, 2000}, d \in { <<"x">>, <<"y">> } }

InitTop3 ==
    /\ InitSessao
    /\ GEMINI_API_KEY = TRUE
    /\ amount_in = <<>>
    /\ amount_out = SemProbe
    /\ gastos \in UNION { [1..n -> LinhasTop3] : n \in 0..MaxGastosTop3 }

NextTop3 == \E u \in Users : top3(u)

SpecTop3 == InitTop3 /\ [][NextTop3]_vars

\* ----------------------------------------------------------- /mtp, on its own

RendaArgs ==
    { <<>>, << <<"x">> >>, << <<"5", "0">> >>, << <<"1", "0", "0">>, <<"s">> >>,
      << <<"-", "5", "0">> >> }

NextMtp ==
    \/ \E u \in Users, args \in RendaArgs :
            /\ Len(receitas) < MaxReceitas
            /\ addreceita(u, args)
    \/ \E u \in Users, args \in RendaArgs :
            /\ Len(receitas_parceiro) < MaxParceiro
            /\ addreceita_parceiro(u, args)
    \/ \E u \in Users, args \in RendaArgs :
            /\ Len(fixos) < MaxFixos
            /\ fixo(u, args)
    \/ \E u \in Users : mtp(u)

SpecMtp == Init /\ [][NextMtp]_vars

\* ------------------------------------------------------ budgets, on their own

OrcamentoArgs == { <<>>, << <<"x">> >>, << <<"1", "0", "0">> >>, << <<"2", "0", "0">> >> }

OrcamentoCategoriaArgs ==
    { << <<"a">> >>, << <<"a">>, <<"x">> >>, << <<"a">>, <<"1", "0", "0">> >>,
      << <<"a">>, <<"2", "0", "0">> >>, << <<"a">>, <<"b">>, <<"1", "0", "0">> >> }

NextOrcamento ==
    \/ \E u \in Users, args \in OrcamentoArgs :
            /\ Len(orcamento) < MaxOrcamento
            /\ orcamento_cmd(u, args)
    \/ \E u \in Users, args \in OrcamentoCategoriaArgs :
            /\ Len(orcamento) < MaxOrcamento
            /\ orcamento_categoria(u, args)
    \/ \E u \in Users : dashboard(u)
    \/ /\ MesAno(agora).mes < MaxMeses
       /\ virar_mes

SpecOrcamento == Init /\ [][NextOrcamento]_vars

\* ------------------------------------------------------ claims: the dialogue

\* The /addgasto commands of GastoArgs that parse, with the amount (in centavos)
\* and the description the user typed.
EntradaGasto ==
    { [args |-> << Cinquenta, <<"x">> >>, valor |-> 5000, descricao |-> <<"x">>],
      [args |-> << Cinquenta, <<"a", "|", "b">> >>, valor |-> 5000,
       descricao |-> <<"a", "|", "b">>] }

Pendente(u) == user_data[u].pending_gasto

\* The voucher balance as the claims define it.
VoucherBalance ==
    SumValor(vales) - SumValor(SelectSeq(gastos, LAMBDA g : g.categoria = <<"alimentação">>))

\* gastos' is gastos with exactly one more row, of these four values.
UmaLinhaNova(valor, descricao, categoria, dia) ==
    /\ Len(gastos') = Len(gastos) + 1
    /\ SubSeq(gastos', 1, Len(gastos)) = gastos
    /\ LET g == gastos'[Len(gastos')] IN
        /\ g.valor = valor
        /\ g.descricao = descricao
        /\ g.categoria = categoria
        /\ g.data_transacao = dia

\* C1: dialogue round trip.  For a user in Idle, /addgasto a d makes the draft
\* (a, d) and its prompt; pressing the button c of a prompt puts the prompt's
\* (a, d) with category c in AwaitingDate; a recognized date text ("ontem") then
\* adds exactly one gastos row (a, d, c, yesterday) and clears the draft
\* (alimentação: when the voucher balance covers the amount).
C1_RoundTrip ==
    [][\A u \in Users :
        /\ \A e \in EntradaGasto :
              (~HasPending(u) /\ addgasto(u, e.args)) =>
                  /\ user_data'[u] =
                        [pending_gasto |->
                            [valor |-> e.valor, descricao |-> e.descricao,
                             waiting_for_category |-> TRUE]]
                  /\ \E k \in chat'[u] : k.valor = e.valor /\ k.descricao = e.descricao
        /\ \A k \in chat[u], c \in Categorias :
              button_handler(u, k, c) =>
                  user_data'[u] =
                        [pending_gasto |->
                            [valor |-> k.valor, descricao |-> k.descricao,
                             categoria |-> <<c>>, waiting_for_date |-> TRUE]]
        /\ \A t \in DateTexts :
              ( /\ PendingFlag(u, "waiting_for_date")
                /\ Pendente(u).categoria = <<"alimentação">>
                        => VoucherBalance >= Pendente(u).valor
                /\ handle_message(u, t, <<Excecao, Excecao>>) ) =>
                  /\ UmaLinhaNova(Pendente(u).valor, Pendente(u).descricao,
                                  Pendente(u).categoria, agora - 1)
                  /\ user_data'[u] = <<>>
    ]_vars

\* C2: a draft of category alimentação at the date step.  Voucher balance
\* strictly below the amount: no table changes and the draft is discarded.
\* Balance at or above the amount: the expense row is added.
C2_ValeInsuficiente ==
    [][\A u \in Users, t \in DateTexts :
        ( /\ PendingFlag(u, "waiting_for_date")
          /\ Pendente(u).categoria = <<"alimentação">>
          /\ handle_message(u, t, <<Excecao, Excecao>>) ) =>
            IF VoucherBalance < Pendente(u).valor
            THEN ledger' = ledger /\ user_data'[u] = <<>>
            ELSE /\ UmaLinhaNova(Pendente(u).valor, Pendente(u).descricao,
                                 <<"alimentação">>, agora - 1)
                 /\ user_data'[u] = <<>>
    ]_vars

\* C2 witness: an alimentação draft was refused, nothing was stored.
C2_Witness ==
    /\ reply = [to |-> "u1", kind |-> "saldo_insuficiente"]
    /\ user_data["u1"] = <<>>
    /\ gastos = <<>>

\* C3: committing an expense of amount v lowers the /saldo balance by exactly
\* v whatever the category, and lowers the voucher balance by v for
\* alimentação and by nothing otherwise.
C3_SaldoDelta ==
    [][\A u \in Users, t \in DateTexts :
        ( /\ PendingFlag(u, "waiting_for_date")
          /\ handle_message(u, t, <<Excecao, Excecao>>)
          /\ Len(gastos') = Len(gastos) + 1 ) =>
            /\ SaldoFinal' = SaldoFinal - Pendente(u).valor
            /\ VoucherBalance' =
                 VoucherBalance -
                    (IF Pendente(u).categoria = <<"alimentação">>
                     THEN Pendente(u).valor ELSE 0)
    ]_vars

\* The answer a call stops at, when it stops at one: the first one, or the
\* second after a failed first.
Consumida(rs) == IF rs[1].kind = "json" THEN rs[1] ELSE rs[2]

\* C4: an interpreter output of type "none", of confidence below 60 or without
\* confidence changes no table, no draft and sends no keyboard; with confidence
\* exactly 60 an expense becomes the pending draft and an income a receitas row.
C4_BaixaConfianca ==
    [][\A u \in Users, rs \in RespostasSeq :
        ( /\ ~PendingFlag(u, "waiting_for_date")
          /\ Consumida(rs).kind = "json"
          /\ handle_message(u, TextoLivre, rs) ) =>
            LET r == Consumida(rs) IN
            /\ ( r.type = "none" \/ r.confidence = Missing \/ r.confidence[1] < 60 )
                  => ledger' = ledger /\ user_data' = user_data /\ chat' = chat
            /\ ( r.type = "expense" /\ r.confidence = Some(60) /\ r.amount # Missing )
                  => user_data'[u] =
                        [pending_gasto |->
                            [valor |-> 5000, descricao |-> <<"x">>,
                             waiting_for_category |-> TRUE]]
            /\ ( r.type = "income" /\ r.confidence = Some(60) /\ r.amount # Missing )
                  => /\ Len(receitas') = Len(receitas) + 1
                     /\ receitas'[Len(receitas')].valor = 5000
    ]_vars

\* C4 witness: one request was made, its answer was dropped, and the user who
\* already had a draft keeps it.
C4_Witness ==
    /\ reply = [to |-> "u1", kind |-> "nao_entendi"]
    /\ posts = 1
    /\ PendingFlag("u1", "waiting_for_category")

\* ------------------------------------------- claims: amount normalization

SoDigitos(s) == s # <<>> /\ \A i \in 1..Len(s) : s[i] \in DigitChars

\* s is digits, one sep, digits.
Decimal(s, sep) ==
    \E i \in 2..(Len(s) - 1) :
        /\ s[i] = sep
        /\ SoDigitos(SubSeq(s, 1, i - 1))
        /\ SoDigitos(SubSeq(s, i + 1, Len(s)))

\* s is groups of digits separated by ".", at least two, then "," and digits.
Brasileiro(s) ==
    \E i \in 2..(Len(s) - 1) :
        /\ s[i] = ","
        /\ SoDigitos(SubSeq(s, i + 1, Len(s)))
        /\ Contains(SubSeq(s, 1, i - 1), ".")
        /\ \A g \in 1..Len(Split(SubSeq(s, 1, i - 1), ".")) :
                SoDigitos(Split(SubSeq(s, 1, i - 1), ".")[g])

\* The float v is the number written by the digits of s with casas of them
\* after the decimal separator.
Vale(v, s, casas) ==
    LET digitos == SelectSeq(s, LAMBDA c : c \in DigitChars) IN
    v.ok /\ v.m * Pow10(casas) = DigitsVal(digitos) * Pow10(v.e)

CasasDepois(s, sep) == Len(s) - (CHOOSE i \in 1..Len(s) : s[i] = sep)

\* C9: the normalization reads every valid decimal string as the number it
\* writes: "," alone is the decimal separator ("1,5" is 1.5, as "1.5" is), and
\* with both, "." separates thousands and "," the decimals ("1.0,1" is 10.1).
C9_MesmoValor ==
    (amount_out.done /\ GEMINI_API_KEY) =>
        /\ \A sep \in {",", "."} :
              Decimal(amount_in, sep) =>
                  /\ amount_out.value.some
                  /\ Vale(amount_out.value.amount[1], amount_in, CasasDepois(amount_in, sep))
        /\ Brasileiro(amount_in) =>
              /\ amount_out.value.some
              /\ Vale(amount_out.value.amount[1], amount_in, CasasDepois(amount_in, ","))

\* What does hold: the strings with one separator.
C9_UmSeparador ==
    (amount_out.done /\ GEMINI_API_KEY) =>
        \A sep \in {",", "."} :
            Decimal(amount_in, sep) =>
                /\ amount_out.value.some
                /\ Vale(amount_out.value.amount[1], amount_in, CasasDepois(amount_in, sep))

\* ------------------------------------------------------------ claims: goals

\* C5: /progresso_meta <id> <v>.  No goal of that id, or the goal is completed:
\* metas is unchanged.  Otherwise only that goal changes: when current + v
\* reaches or exceeds the target, current becomes exactly the target and the
\* goal is completed; below the target, current becomes current + v and the
\* goal stays uncompleted.
C5_Progresso ==
    [][\A u \in Users, e \in EntradaProgresso :
        progresso_meta(u, e.args) =>
            LET alvo == { i \in 1..Len(metas) : metas[i].id = e.id } IN
            IF alvo = {} \/ \E i \in alvo : metas[i].concluida = 1
            THEN metas' = metas
            ELSE /\ Len(metas') = Len(metas)
                 /\ \A i \in 1..Len(metas) :
                      IF i \notin alvo THEN metas'[i] = metas[i]
                      ELSE /\ metas'[i].id = metas[i].id
                           /\ metas'[i].nome = metas[i].nome
                           /\ metas'[i].valor_alvo = metas[i].valor_alvo
                           /\ IF metas[i].valor_atual + e.valor >= metas[i].valor_alvo
                              THEN /\ metas'[i].valor_atual = metas[i].valor_alvo
                                   /\ metas'[i].concluida = 1
                              ELSE /\ metas'[i].valor_atual = metas[i].valor_atual + e.valor
                                   /\ metas'[i].concluida = 0
    ]_vars

\* C5 witness: a goal was just completed at its target while another one is
\* part of the way.
C5_Witness ==
    /\ reply.kind = "meta_concluida"
    /\ \E i, j \in 1..Len(metas) :
        /\ metas[i].concluida = 1 /\ metas[i].valor_atual = metas[i].valor_alvo
        /\ metas[j].concluida = 0 /\ metas[j].valor_atual > 0

\* ------------------------------------------------------- claims: categories

NomesDe(t) == { t[i].nome : i \in 1..Len(t) }

\* C6: /addcategoria with a name already in categorias leaves the table as it
\* is and answers "already exists"; with a new name it appends one row of that
\* name; no two rows of categorias ever have the same name.
C6_Categoria ==
    [][ /\ \A u \in Users, e \in EntradaCategoria :
            addcategoria(u, e.args) =>
                IF e.nome \in NomesDe(categorias)
                THEN /\ categorias' = categorias
                     /\ reply' = [to |-> u, kind |-> "categoria_ja_existe", nome |-> e.nome]
                ELSE /\ Len(categorias') = Len(categorias) + 1
                     /\ SubSeq(categorias', 1, Len(categorias)) = categorias
                     /\ categorias'[Len(categorias')].nome = e.nome
        /\ \A i, j \in 1..Len(categorias') :
                i # j => categorias'[i].nome # categorias'[j].nome
    ]_vars

\* C6 witness: a duplicate was refused in a table of several names.
C6_Witness ==
    /\ reply.kind = "categoria_ja_existe"
    /\ reply.nome \in NomesDe(categorias)
    /\ Len(categorias) >= 2

\* ------------------------------------------------------------ claims: top 3

\* Row a of gastos is listed before row b: a higher amount, or the same amount
\* and inserted earlier.
Antes(a, b) ==
    \/ gastos[a].valor > gastos[b].valor
    \/ gastos[a].valor = gastos[b].valor /\ a < b

C7_Vazio == reply.kind = "nenhum_gasto" /\ gastos = <<>>

\* -------------------------------------------------------------- claims: /mtp

\* C8: /mtp with disposable = income + partner income - fixed expenses.  At
\* disposable <= 0 the reply is the warning alone; otherwise the four buckets
\* are 50%, 30%, 15% and 5% of disposable and add up to it.
C8_Mtp ==
    [][\A u \in Users :
        mtp(u) =>
            LET d == SumValor(receitas) + SumValor(receitas_parceiro) - SumValor(fixos) IN
            IF d <= 0 THEN reply' = [to |-> u, kind |-> "mtp_alerta"]
            ELSE /\ reply'.kind = "mtp"
                 /\ reply'.disponivel = d
                 /\ 100 * reply'.necessidades = 50 * d
                 /\ 100 * reply'.prioridades = 30 * d
                 /\ 100 * reply'.qualidade_vida = 15 * d
                 /\ 100 * reply'.liberdade_financeira = 5 * d
                 /\ reply'.necessidades + reply'.prioridades + reply'.qualidade_vida
                        + reply'.liberdade_financeira = d
    ]_vars

\* C8 witness: a split of R$ 50,00 left by R$ 100,00 of income and R$ 50,00 of
\* fixed expenses.
C8_Witness ==
    /\ reply.kind = "mtp"
    /\ reply.disponivel = 5000
    /\ reply.qualidade_vida = 750
    /\ fixos # <<>>

\* C8 witness of the warning.
C8_Alerta == reply.kind = "mtp_alerta" /\ fixos # <<>> /\ receitas # <<>>

\* ---------------------------------------------------------- claims: budgets

ChaveOrcamento(row) == <<row.tipo, row.categoria, row.mes, row.ano>>

\* The value of the most recent /orcamento of the current month, 0 without one.
UltimoOrcamentoGeral ==
    LET res == SelectSeq(orcamento,
                         LAMBDA row : /\ row.tipo = "geral"
                                      /\ row.mes = MesAno(agora).mes
                                      /\ row.ano = MesAno(agora).ano)
    IN IF res = <<>> THEN 0 ELSE res[Len(res)].valor

\* C10: orcamento holds at most one row per (scope, category, month, year),
\* and the general budget /dashboard reports is that of the most recent
\* /orcamento of the month.
C10_Substitui ==
    [][ /\ \A i, j \in 1..Len(orcamento') :
            i # j => ChaveOrcamento(orcamento'[i]) # ChaveOrcamento(orcamento'[j])
        /\ \A u \in Users :
            dashboard(u) => reply'.orcamento_mensal = UltimoOrcamentoGeral
    ]_vars

\* What does hold: the rows of scope 'categoria' are replaced.
C10_CategoriaSubstitui ==
    \A i, j \in 1..Len(orcamento) :
        (i # j /\ orcamento[i].tipo = "categoria")
            => ChaveOrcamento(orcamento[i]) # ChaveOrcamento(orcamento[j])

\* ---------------------------------------------- claims: the date has priority

\* C11: a plain-text message from a user whose draft is in AwaitingDate is the
\* date answer of that draft: the text-completion service is not asked, no
\* income row and no new draft or prompt is made, the draft is gone, and the
\* only row that may be added is the draft's own gastos row.
C11_DataTemPrioridade ==
    [][\A u \in Users, text \in TextosMensagem, rs \in RespostasMensagem :
        ( /\ PendingFlag(u, "waiting_for_date")
          /\ handle_message(u, text, rs) ) =>
            /\ posts' = posts
            /\ receitas' = receitas
            /\ chat' = chat
            /\ user_data'[u] = <<>>
            /\ \/ gastos' = gastos
               \/ \E dia \in {agora, agora - 1} :
                     UmaLinhaNova(Pendente(u).valor, Pendente(u).descricao,
                                  Pendente(u).categoria, dia)
    ]_vars

\* C11 witness: a text the service would have understood became the date
\* answer (parse_date fell back to today); the service was never asked.
C11_Witness ==
    /\ reply = [to |-> "u1", kind |-> "gasto_registrado"]
    /\ Len(gastos) = 1
    /\ gastos[1].data_transacao = agora
    /\ receitas = <<>>
    /\ posts = 0
    /\ user_data["u1"] = <<>>

\* ------------------------------------------------ claims: the card statement

\* The (description, amount) pairs of the rows of t that satisfy P, in order.
Pares(t, P(_)) ==
    LET r == SelectSeq(t, P) IN [i \in 1..Len(r) |-> <<r[i].descricao, r[i].valor>>]

RECURSIVE SomaItens(_)
SomaItens(itens) == IF itens = <<>> THEN 0 ELSE itens[1][2] + SomaItens(Tail(itens))

\* C12: the step that commits a draft adds to fatura_cartao exactly one row
\* (the draft's description and amount, pago = 0) when the category is crédito
\* and none otherwise; the unpaid fatura_cartao rows always match the gastos
\* rows of category crédito one to one; and the total /fatura shows is the sum
\* of the items it lists.
C12_Fatura ==
    [][ /\ \A u \in Users :
            ( /\ PendingFlag(u, "waiting_for_date")
              /\ handle_message(u, <<"ontem">>, <<Excecao, Excecao>>)
              /\ gastos' # gastos ) =>
                IF Pendente(u).categoria = <<"crédito">>
                THEN /\ Len(fatura_cartao') = Len(fatura_cartao) + 1
                     /\ SubSeq(fatura_cartao', 1, Len(fatura_cartao)) = fatura_cartao
                     /\ LET f == fatura_cartao'[Len(fatura_cartao')] IN
                          /\ f.descricao = Pendente(u).descricao
                          /\ f.valor = Pendente(u).valor
                          /\ f.pago = 0
                ELSE fatura_cartao' = fatura_cartao
        /\ Pares(fatura_cartao', LAMBDA f : f.pago = 0)
                = Pares(gastos', LAMBDA g : g.categoria = <<"crédito">>)
        /\ \A u \in Users :
            fatura(u) => reply'.total = SomaItens(reply'.itens)
    ]_vars

\* C12 witness: /fatura lists one item of 50,00 while gastos also holds a row
\* that is not on credit.
C12_Witness ==
    /\ reply.kind = "fatura"
    /\ reply.total = 5000
    /\ Len(reply.itens) = 1
    /\ Len(gastos) = 2
    /\ Len(fatura_cartao) = 1

\* ------------------------------------------------------------ claims: reset

Tabelas ==
    <<receitas, receitas_parceiro, gastos, fixos, vales, fatura_cartao, metas,
      lembretes, categorias, orcamento, recorrentes>>

C13_Cancelado ==
    /\ reply.kind = "reset_cancelado"
    /\ \A i \in 1..11 : Tabelas[i] # <<>>

\* ---------------------------------------------- claims: one state per user

\* The step is an update from user v.
UpdateDe(v) ==
    \/ \E args \in UsuariosArgs : addgasto(v, args)
    \/ \E k \in chat[v] : button_handler(v, k, "pix")
    \/ handle_message(v, <<"ontem">>, <<Excecao, Excecao>>)

\* No update from a user touches the draft or the prompts of another.
Isolado ==
    \A a, b \in Users :
        (a # b /\ UpdateDe(b)) => user_data'[a] = user_data[a] /\ chat'[a] = chat[a]

\* C14: no update from user B creates, changes or clears the draft of user A,
\* and A's own dialogue carries what A entered to the committed row: the
\* amount and description of A's /addgasto go to the draft and its prompt, the
\* button A presses keeps them and adds the category, and the date answer
\* stores the draft.
C14_PorUsuario ==
    [][ /\ Isolado
        /\ \A a \in Users :
            /\ \A e \in EntradaGasto :
                  addgasto(a, e.args) =>
                      /\ Pendente(a)'.valor = e.valor
                      /\ Pendente(a)'.descricao = e.descricao
                      /\ \E k \in chat'[a] : k.valor = e.valor /\ k.descricao = e.descricao
            /\ \A k \in chat[a] :
                  button_handler(a, k, "pix") =>
                      /\ Pendente(a)'.valor = k.valor
                      /\ Pendente(a)'.descricao = k.descricao
                      /\ Pendente(a)'.categoria = <<"pix">>
            /\ ( /\ PendingFlag(a, "waiting_for_date")
                 /\ handle_message(a, <<"ontem">>, <<Excecao, Excecao>>) ) =>
                      UmaLinhaNova(Pendente(a).valor, Pendente(a).descricao,
                                   Pendente(a).categoria, agora - 1)
    ]_vars

\* What does hold: the isolation itself.
C14_Isolamento == [][Isolado]_vars

\* ... and the dialogue of every description without "|".
C14_SemBarra ==
    [][\A a \in Users :
        /\ \A k \in chat[a] :
              (button_handler(a, k, "pix") /\ ~Contains(k.descricao, "|")) =>
                  /\ Pendente(a)'.valor = k.valor
                  /\ Pendente(a)'.descricao = k.descricao
                  /\ Pendente(a)'.categoria = <<"pix">>
        /\ ( /\ PendingFlag(a, "waiting_for_date")
             /\ handle_message(a, <<"ontem">>, <<Excecao, Excecao>>) ) =>
                  UmaLinhaNova(Pendente(a).valor, Pendente(a).descricao,
                               Pendente(a).categoria, agora - 1)
    ]_vars

\* ------------------------------------------------- specification: interpreter

\* The interpreter and the category prompt, with or without an API key, against
\* a service that answers anything: errors, exceptions, bodies that are not
\* JSON, and JSON objects with any type, confidence and amount.
InitGemini ==
    /\ InitBot
    /\ GEMINI_API_KEY \in BOOLEAN
    /\ amount_in = <<>>
    /\ amount_out = SemProbe

Falhas == {HttpError, Excecao, Malformado}

JsonGemini ==
    { Json(t, c, a, Some(<<"x">>)) :
        t \in {"income", "expense", "none"},
        c \in {Missing, Some(59), Some(60)},
        a \in {Missing, Some(<<"7", ",", "5">>), Some(<<"a">>)} }

\* What the service would answer to a first and to a second request.
RespostasGemini ==
    { <<r, Json("expense", Some(60), Some(Cinquenta), Some(<<"x">>))>> :
            r \in JsonGemini }
        \cup { <<f, r>> : f \in Falhas,
                          r \in Falhas \cup
                                { Json("income", Some(60), Some(<<"7", ",", "5">>), Missing),
                                  Json("none", Some(0), Missing, Missing),
                                  Json("expense", Some(59), Some(Cinquenta), Missing) } }

NextGemini ==
    \/ \E u \in Dialogantes, args \in GastoArgs : addgasto(u, args)
    \/ \E u \in Dialogantes : \E k \in chat[u] : \E c \in Categorias :
            button_handler(u, k, c)
    \/ \E u \in Dialogantes, rs \in RespostasGemini :
            /\ ~PendingFlag(u, "waiting_for_date")
            /\ Len(receitas) < MaxReceitas
            /\ handle_message(u, TextoLivre, rs)

SpecGemini == InitGemini /\ [][NextGemini]_vars

\* ------------------------------------------------------ claims: interpreter

\* C15: one interpreter call makes at most two requests (none without an API
\* key); it makes the second one only when the first ended in a non-200 status,
\* a body that does not parse or an exception, never after a first answer that
\* was parsed (dropped as "none" or low confidence, or returned); it sleeps
\* once, between the two requests only; and it always returns a result or None.
C15_DuasTentativas ==
    [][\A u \in Dialogantes, rs \in RespostasGemini :
        ( ~PendingFlag(u, "waiting_for_date") /\ handle_message(u, TextoLivre, rs) ) =>
            LET call == CallGemini(GEMINI_API_KEY, rs) IN
            /\ posts' = call.requests
            /\ posts' <= 2
            /\ ~GEMINI_API_KEY => posts' = 0
            /\ posts' = 2 => rs[1] \in Falhas
            /\ ( GEMINI_API_KEY /\ rs[1].kind = "json" ) => posts' = 1
            /\ ( GEMINI_API_KEY /\ rs[1] \in Falhas ) => posts' = 2
            /\ call.sleeps = IF posts' = 2 THEN 1 ELSE 0
            /\ \/ call.value = Nenhum
               \/ /\ call.value.some
                  /\ call.value.type \in {"income", "expense"}
                  /\ call.value.confidence[1] >= 60
    ]_vars

\* C15 witness: the first request failed, the second answer was understood as
\* an income and recorded.
C15_Witness ==
    /\ posts = 2
    /\ reply = [to |-> "u1", kind |-> "receita_automatica"]
    /\ Len(receitas) = 1 /\ receitas[1].valor = 750

\* C15: a dropped first answer is final, one request and no reply but the
\* "not understood" one.
C15_RejeicaoFinal ==
    posts = 1 /\ reply = [to |-> "u1", kind |-> "nao_entendi"] /\ receitas = <<>>


\* ------------------------------------------------------------------ reports

\* /relatorio
relatorio(u) ==
    LET total_receitas          == SumValor(receitas)
        total_receitas_parceiro == SumValor(receitas_parceiro)
        total_vales             == SumValor(vales)
        total_gastos            == SumValor(gastos)
        total_fixos             == SumValor(fixos)
    IN /\ reply' =
            [to |-> u, kind |-> "relatorio",
             receitas |-> total_receitas, receitas_parceiro |-> total_receitas_parceiro,
             vales |-> total_vales, gastos |-> total_gastos, fixos |-> total_fixos,
             saldo |-> total_receitas + total_receitas_parceiro + total_vales
                            - total_gastos - total_fixos]
       /\ UNCHANGED <<env, posts, user_data, chat, ledger, probe>>

\* mes = int(context.args[0]); ano = int(context.args[1]) and the two range
\* tests (lines 1640-1649, 1740-1749); IndexError / ValueError give ok = FALSE.
ArgsMesAno(args) ==
    IF Len(args) < 2 \/ ~ParseInt(args[1]).ok \/ ~ParseInt(args[2]).ok
    THEN [ok |-> FALSE, mes |-> 0, ano |-> 0]
    ELSE LET mes == ParseInt(args[1]).n
             ano == ParseInt(args[2]).n
         IN [ok |-> ~(mes < 1 \/ mes > 12) /\ ~(ano < 2000 \/ ano > 2100),
             mes |-> mes, ano |-> ano]

\* SELECT SUM(valor) FROM t WHERE strftime('%m', d) = mes AND strftime('%Y', d)
\* = ano ... or 0, d being COALESCE(data_transacao, data) for gastos and data
\* for the other tables. Day 1 is the first day of 2024.
RECURSIVE SumMes(_, _, _)
SumMes(t, mes, ano) ==
    IF t = <<>> THEN 0
    ELSE LET d == IF "data_transacao" \in DOMAIN t[1] THEN t[1].data_transacao
                  ELSE t[1].data
         IN (IF MesAno(d).mes = mes /\ MesAno(d).ano + 2024 = ano
             THEN t[1].valor ELSE 0) + SumMes(Tail(t), mes, ano)

\* /saldo_mes <mês> <ano>
saldo_mes(u, args) ==
    LET a   == ArgsMesAno(args)
        alimentacao == SelectSeq(gastos, LAMBDA g : g.categoria = <<"alimentação">>)
        total_receitas          == SumMes(receitas, a.mes, a.ano)
        total_receitas_parceiro == SumMes(receitas_parceiro, a.mes, a.ano)
        total_vales             == SumMes(vales, a.mes, a.ano)
        total_gastos            == SumMes(gastos, a.mes, a.ano)
        total_fixos             == SumMes(fixos, a.mes, a.ano)
        saldo_vale              == total_vales - SumMes(alimentacao, a.mes, a.ano)
    IN /\ reply' =
            IF ~a.ok THEN [to |-> u, kind |-> "uso_saldo_mes"]
            ELSE [to |-> u, kind |-> "saldo_mes", mes |-> a.mes, ano |-> a.ano,
                  receitas |-> total_receitas + total_receitas_parceiro,
                  vales |-> total_vales, saldo_vale |-> saldo_vale,
                  gastos |-> total_gastos, fixos |-> total_fixos,
                  saldo |-> total_receitas + total_receitas_parceiro + saldo_vale
                                - total_gastos - total_fixos]
       /\ UNCHANGED <<env, posts, user_data, chat, ledger, probe>>

\* /relatorio_mes <mês> <ano>
relatorio_mes(u, args) ==
    LET a   == ArgsMesAno(args)
        total_receitas          == SumMes(receitas, a.mes, a.ano)
        total_receitas_parceiro == SumMes(receitas_parceiro, a.mes, a.ano)
        total_vales             == SumMes(vales, a.mes, a.ano)
        total_gastos            == SumMes(gastos, a.mes, a.ano)
        total_fixos             == SumMes(fixos, a.mes, a.ano)
    IN /\ reply' =
            IF ~a.ok THEN [to |-> u, kind |-> "uso_relatorio_mes"]
            ELSE [to |-> u, kind |-> "relatorio_mes", mes |-> a.mes, ano |-> a.ano,
                  receitas |-> total_receitas,
                  receitas_parceiro |-> total_receitas_parceiro,
                  vales |-> total_vales, gastos |-> total_gastos, fixos |-> total_fixos,
                  saldo |-> total_receitas + total_receitas_parceiro + total_vales
                                - total_gastos - total_fixos]
       /\ UNCHANGED <<env, posts, user_data, chat, ledger, probe>>

\* The balances: one user records an income, a voucher top-up, a fixed expense
\* and an expense paid from the voucher or by pix, dated today or yesterday
\* (the last day of 2023), and asks for every balance.
NextSaldo ==
    \/ \E u \in Dialogantes :
            /\ Len(receitas) < MaxReceitas
            /\ addreceita(u, << <<"1", "0", "0">>, <<"s">> >>)
    \/ \E u \in Dialogantes :
            /\ Len(fixos) < MaxFixos
            /\ fixo(u, << <<"3", "0">>, <<"f">> >>)
    \/ \E u \in Dialogantes :
            /\ Len(vales) < MaxVales
            /\ vale(u, << Cinquenta >>)
    \/ \E u \in Dialogantes : addgasto(u, << <<"2", "0">>, <<"y">> >>)
    \/ \E u \in Dialogantes : \E k \in chat[u] : \E c \in {"alimentação", "pix"} :
            button_handler(u, k, c)
    \/ \E u \in Dialogantes, text \in { <<"ontem">>, <<"hoje">> } :
            /\ PendingFlag(u, "waiting_for_date")
            /\ Len(gastos) < MaxGastos
            /\ handle_message(u, text, <<Excecao, Excecao>>)
    \/ \E u \in Dialogantes : saldo(u)
    \/ \E u \in Dialogantes : dashboard(u)
    \/ \E u \in Dialogantes : relatorio(u)
    \/ \E u \in Dialogantes,
          args \in { << <<"1">>, <<"2", "0", "2", "4">> >>,
                     << <<"1", "2">>, <<"2", "0", "2", "3">> >>,
                     << <<"1", "3">>, <<"2", "0", "2", "4">> >>, << <<"1">> >> } :
            saldo_mes(u, args)
    \/ \E u \in Dialogantes :
            \/ /\ reply.kind = "saldo_mes"
               /\ relatorio_mes(u, <<NatStr(reply.mes), NatStr(reply.ano)>>)
            \/ relatorio_mes(u, << <<"x">>, <<"2", "0", "2", "4">> >>)

SpecSaldo == Init /\ [][NextSaldo]_vars

\* --------------------------------------------------------- claims: balances

\* receitas + receitas_parceiro + (vales - gastos with categoria alimentação)
\* - gastos - fixos
C16_Canonico ==
    SumValor(receitas) + SumValor(receitas_parceiro)
        + (SumValor(vales) - SumCategoria(gastos, <<"alimentação">>))
        - SumValor(gastos) - SumValor(fixos)

\* C16: the balance reported by /saldo, /dashboard and /relatorio is the
\* canonical one, receitas + receitas_parceiro + (vales - gastos of
\* alimentação) - gastos - fixos, and /relatorio_mes asked after /saldo_mes for
\* the same month and year reports the same balance.
C16_Consistente ==
    [][\A u \in Users :
        /\ ( saldo(u) \/ dashboard(u) \/ relatorio(u) ) => reply'.saldo = C16_Canonico
        /\ ( /\ reply.kind = "saldo_mes"
             /\ relatorio_mes(u, <<NatStr(reply.mes), NatStr(reply.ano)>>) )
                => reply'.saldo = reply.saldo
    ]_vars

\* C16: /saldo alone reports the canonical balance.
C16_Saldo == [][\A u \in Users : saldo(u) => reply'.saldo = C16_Canonico]_vars

\* C16: /dashboard reports the canonical balance.
C16_Dashboard == [][\A u \in Users : dashboard(u) => reply'.saldo = C16_Canonico]_vars

\* C16: /relatorio reports the canonical balance.
C16_Relatorio == [][\A u \in Users : relatorio(u) => reply'.saldo = C16_Canonico]_vars

\* C16: /relatorio_mes agrees with the /saldo_mes asked just before it.
C16_Mes ==
    [][\A u \in Users :
        ( /\ reply.kind = "saldo_mes"
          /\ relatorio_mes(u, <<NatStr(reply.mes), NatStr(reply.ano)>>) )
            => reply'.saldo = reply.saldo
    ]_vars


\* ----------------------------------------------- the goals, with any target

\* One user creates goals with a zero, a negative or a positive target and
\* contributes to them.
NextMetasQualquer ==
    \/ \E u \in Dialogantes,
          args \in { << <<"0">>, <<"z">> >>, << <<"-", "5", "0">>, <<"n">> >>,
                     << <<"5", "0">>, <<"p">> >> } :
            /\ Len(metas) < MaxMetas
            /\ addmeta(u, args)
    \/ \E u \in Dialogantes, id \in { <<"1">>, <<"2">> },
          v \in { <<"5", "0">>, <<"-", "5", "0">>, <<"0">> } :
            /\ progresso_meta(u, <<id, v>>)
            /\ \A i \in 1..Len(metas') : metas'[i].valor_atual >= 0 - MaxRetirada

SpecMetasQualquer == Init /\ [][NextMetasQualquer]_vars

\* ----------------------------------------------------------- claims: goals

\* C17: every goal has valor_atual <= valor_alvo, and is concluida exactly
\* when valor_atual >= valor_alvo, whatever the targets and contributions.
C17_MetaInvariante ==
    \A i \in 1..Len(metas) :
        /\ metas[i].valor_atual <= metas[i].valor_alvo
        /\ metas[i].concluida = 1 <=> metas[i].valor_atual >= metas[i].valor_alvo

\* C17: the same for the goals of a positive target.
C17_AlvoPositivo ==
    \A i \in 1..Len(metas) :
        metas[i].valor_alvo > 0 =>
            /\ metas[i].valor_atual <= metas[i].valor_alvo
            /\ metas[i].concluida = 1 <=> metas[i].valor_atual >= metas[i].valor_alvo


\* -------------------------------------------- amounts that are not positive

\* One user passes a negative amount to every command that takes one (and a
\* zero to /addgasto), and the interpreter reads a negative amount.
NextValores ==
    \/ \E u \in Dialogantes :
            /\ Len(receitas) < MaxReceitas
            /\ addreceita(u, << <<"-", "5", "0">>, <<"x">> >>)
    \/ \E u \in Dialogantes :
            /\ Len(receitas_parceiro) < MaxParceiro
            /\ addreceita_parceiro(u, << <<"-", "5", "0">>, <<"x">> >>)
    \/ \E u \in Dialogantes, valor \in { <<"-", "5", "0">>, <<"0">> } :
            addgasto(u, << valor, <<"x">> >>)
    \/ \E u \in Dialogantes :
            /\ Len(fixos) < MaxFixos
            /\ fixo(u, << <<"-", "5", "0">>, <<"x">> >>)
    \/ \E u \in Dialogantes :
            /\ Len(vales) < MaxVales
            /\ vale(u, << <<"-", "5", "0">> >>)
    \/ \E u \in Dialogantes :
            /\ metas = <<>>
            /\ addmeta(u, << <<"-", "5", "0">>, <<"x">> >>)
    \/ \E u \in Dialogantes :
            /\ orcamento = <<>>
            /\ orcamento_cmd(u, << <<"-", "5", "0">> >>)
    \/ \E u \in Dialogantes :
            /\ Len(recorrentes) < MaxRecorrentes
            /\ addrecorrente(u, << <<"-", "5", "0">>, <<"5">>, <<"x">> >>)
    \/ \E u \in Dialogantes, type \in {"income", "expense"} :
            /\ Len(receitas) < MaxReceitas
            /\ handle_message(u, TextoLivre,
                              << Json(type, Some(90), Some(<<"-", "5", "0">>),
                                      Some(<<"y">>)), Excecao >>)

SpecValores == Init /\ [][NextValores]_vars

\* ---------------------------------------------------------- claims: amounts

\* C18: every amount stored in a ledger table is non-negative and the amount
\* of every pending draft is strictly positive.
C18_ValoresValidos ==
    /\ \A t \in {receitas, receitas_parceiro, gastos, fixos, vales, fatura_cartao,
                  orcamento, recorrentes} :
            \A i \in 1..Len(t) : t[i].valor >= 0
    /\ \A i \in 1..Len(metas) : metas[i].valor_alvo >= 0 /\ metas[i].valor_atual >= 0
    /\ \A u \in Users : HasPending(u) => user_data[u].pending_gasto.valor > 0

\* C18: the amount of every pending draft is strictly positive.
C18_RascunhoPositivo ==
    \A u \in Users : HasPending(u) => user_data[u].pending_gasto.valor > 0


\* ----------------------------------------------------------- claims: drafts

\* The amount and description of u's pending draft.
Rascunho(u) == <<user_data[u].pending_gasto.valor, user_data[u].pending_gasto.descricao>>

\* C19: a user has one pending draft, and a draft replaced by a newer one is
\* gone: a category button of the prompt of a replaced draft does not bring
\* its amount and description back into the pending draft, so that no date
\* reply commits them.
C19_UmRascunho ==
    [][\A u \in Users : \A k \in chat[u] : \A c \in Categorias :
        ( /\ HasPending(u)
          /\ Rascunho(u) # <<k.valor, k.descricao>>
          /\ button_handler(u, k, c) ) =>
            ~( HasPending(u)' /\ Rascunho(u)' = <<k.valor, k.descricao>> )
    ]_vars

\* C19: a new /addgasto replaces the pending draft.
C19_Substitui ==
    [][\A u \in Users, args \in FaturaArgs :
        addgasto(u, args) =>
            user_data'[u] =
                [pending_gasto |->
                    [valor |-> ArgsValorDescricao(args).valor,
                     descricao |-> ArgsValorDescricao(args).descricao,
                     waiting_for_category |-> TRUE]]
    ]_vars


\* C20: a user with a pending draft who sends an unrelated command (/vale,
\* /saldo) has no pending draft after it.
C20_Descarta ==
    [][\A u \in Users :
        ( /\ HasPending(u)
          /\ saldo(u) \/ \E args \in ValeArgs : vale(u, args) ) => ~HasPending(u)'
    ]_vars

\* C20: the plain text that follows an unrelated command (/saldo) is not taken
\* as the date answer of a draft: it records no expense.
C20_TextoSeguinte ==
    [][\A u \in Users, text \in DateTexts :
        ( /\ reply.kind = "saldo" /\ reply.to = u
          /\ handle_message(u, text, <<Excecao, Excecao>>) ) => gastos' = gastos
    ]_vars


\* ------------------------------------------------------ claims: date answer

\* C21: in AwaitingDate a reply that is none of the recognized date forms is
\* answered by a new prompt: no gastos row is inserted and the draft stays
\* pending in AwaitingDate, unchanged.
C21_Reprompt ==
    [][\A u \in Users, rs \in RespostasMensagem :
        ( /\ PendingFlag(u, "waiting_for_date")
          /\ handle_message(u, TextoLivre, rs) ) =>
            /\ gastos' = gastos
            /\ user_data'[u] = user_data[u]
    ]_vars

\* C21: the only recognized form among the texts, "ontem", is dated yesterday.
C21_Ontem ==
    [][\A u \in Users, rs \in RespostasMensagem :
        ( /\ PendingFlag(u, "waiting_for_date")
          /\ handle_message(u, <<"ontem">>, rs) ) =>
            \/ gastos' = gastos
            \/ UmaLinhaNova(Pendente(u).valor, Pendente(u).descricao,
                            Pendente(u).categoria, agora - 1)
    ]_vars


\* ------------------------------------------------- claims: interpreted income

\* A description that names the food voucher.
C22_PalavraVale(description) == description = Some(<<"vale alimentação">>)

\* C22: an interpreted income is committed at once and makes no draft: one
\* new receitas row, or, when its description names the food voucher, one new
\* vales row of the amount and no receitas row.
C22_ReceitaOuVale ==
    [][\A u \in Users, text \in TextosMensagem, rs \in RespostasMensagem :
        ( /\ ~PendingFlag(u, "waiting_for_date")
          /\ rs[1].kind = "json" /\ rs[1].type = "income"
          /\ handle_message(u, text, rs) ) =>
            /\ user_data' = user_data /\ chat' = chat /\ gastos' = gastos
            /\ IF C22_PalavraVale(rs[1].description)
               THEN /\ receitas' = receitas
                    /\ Len(vales') = Len(vales) + 1
                    /\ vales'[Len(vales')].valor = 5000
               ELSE /\ vales' = vales
                    /\ Len(receitas') = Len(receitas) + 1
                    /\ receitas'[Len(receitas')].valor = 5000
    ]_vars

\* C22: the same for the incomes whose description does not name the voucher.
C22_ReceitaGenerica ==
    [][\A u \in Users, text \in TextosMensagem, rs \in RespostasMensagem :
        ( /\ ~PendingFlag(u, "waiting_for_date")
          /\ rs[1].kind = "json" /\ rs[1].type = "income"
          /\ ~C22_PalavraVale(rs[1].description)
          /\ handle_message(u, text, rs) ) =>
            /\ user_data' = user_data /\ chat' = chat /\ gastos' = gastos
            /\ vales' = vales
            /\ Len(receitas') = Len(receitas) + 1
            /\ receitas'[Len(receitas')].valor = 5000
    ]_vars


\* ------------------------------------------------------------------ restart

\* run_polling raises, the loop of main prints, sleeps and calls run_polling
\* again on the Application built once before the loop (line 2069): the tables
\* are in the database file and the prompts in the chats; the drafts are in
\* the Application's memory, kept by it or found empty.
restart ==
    /\ user_data' \in {user_data, [u \in Users |-> <<>>]}
    /\ reply' = [to |-> "", kind |-> "reiniciando"]
    /\ UNCHANGED <<env, posts, chat, ledger, probe>>

\* One user's expense dialogue, with restarts of the polling loop.
NextReinicio ==
    \/ \E u \in Dialogantes, args \in FaturaArgs : addgasto(u, args)
    \/ \E u \in Dialogantes : \E k \in chat[u] : \E c \in BotoesFatura :
            button_handler(u, k, c)
    \/ \E u \in Dialogantes :
            /\ PendingFlag(u, "waiting_for_date")
            /\ Len(gastos) < MaxGastos
            /\ handle_message(u, <<"ontem">>, <<Excecao, Excecao>>)
    \/ restart

SpecReinicio == Init /\ [][NextReinicio]_vars

\* ---------------------------------------------------------- claims: restart

\* C23: a restart of the polling loop leaves no user with a pending draft and
\* leaves the tables as they were, and a category button pressed after it does
\* not bring back the draft of a prompt sent before it.
C23_Reinicio ==
    [][ /\ restart => /\ \A u \in Users : ~HasPending(u)'
                      /\ ledger' = ledger
        /\ \A u \in Users : \A k \in chat[u] : \A c \in Categorias :
                ( reply.kind = "reiniciando" /\ button_handler(u, k, c) )
                    => ~HasPending(u)'
    ]_vars

\* C23: when the restart found the drafts gone, a category button pressed
\* after it does not bring back the draft of a prompt sent before it.
C23_BotaoDepois ==
    [][\A u \in Users : \A k \in chat[u] : \A c \in Categorias :
        ( /\ reply.kind = "reiniciando"
          /\ user_data[u] = <<>>
          /\ button_handler(u, k, c) ) => ~HasPending(u)'
    ]_vars

\* C23: the rows already committed are unchanged by the restart.
C23_Armazenado == [][restart => ledger' = ledger]_vars


\* --------------------------------------------------------------- validation

\* The commands that validate their arguments, well and ill formed, sent by a
\* user who may have a pending draft; /fixo, /vale, /addmeta and /orcamento
\* are sent ill formed only.
NextValidacao ==
    \/ \E u \in Dialogantes, args \in GastoArgs : addgasto(u, args)
    \/ \E u \in Dialogantes, args \in RendaArgs :
            /\ receitas = <<>>
            /\ addreceita(u, args)
    \/ \E u \in Dialogantes, args \in RendaArgs :
            /\ ~ArgsValorDescricao(args).ok
            /\ fixo(u, args)
    \/ \E u \in Dialogantes, args \in ValeArgs :
            /\ ~ArgsValorDescricao(args).ok
            /\ vale(u, args)
    \/ \E u \in Dialogantes, args \in RendaArgs :
            /\ ~ArgsValorDescricao(args).ok
            /\ addmeta(u, args)
    \/ \E u \in Dialogantes, args \in RendaArgs :
            /\ ~ArgsValorDescricao(args).ok
            /\ orcamento_cmd(u, args)
    \/ \E u \in Dialogantes, args \in LembreteArgs :
            /\ lembretes = <<>>
            /\ addlembrete(u, args)
    \/ \E u \in Dialogantes, args \in RecorrenteArgs :
            /\ recorrentes = <<>>
            /\ addrecorrente(u, args)

SpecValidacao == Init /\ [][NextValidacao]_vars

\* ------------------------------------------------------- claims: validation

\* The first argument is missing or is not a number.
C24_SemValor(args) == args = <<>> \/ args[1] \in { <<"a", "b", "c">>, <<"x">> }

\* The argument at position i is missing or is a day outside 1..31.
C24_DiaInvalido(args, i) == Len(args) < i \/ args[i] \in { <<"0">>, <<"3", "2">> }

\* The step replied to u with the usage hint kind and changed nothing else.
C24_SoAjuda(u, kind) ==
    /\ reply' = [to |-> u, kind |-> kind]
    /\ ledger' = ledger /\ user_data' = user_data /\ chat' = chat

\* C24: a command whose amount is missing or not a number (/addgasto,
\* /addreceita, /fixo, /vale, /addmeta, /orcamento) or whose day is missing or
\* outside 1..31 (/addlembrete, /addrecorrente) replies with its usage hint,
\* inserts no row in any table and leaves every pending draft as it was.
C24_ErroNaoMuda ==
    [][\A u \in Users :
        /\ \A args \in GastoArgs :
              ( C24_SemValor(args) /\ addgasto(u, args) ) => C24_SoAjuda(u, "uso_addgasto")
        /\ \A args \in RendaArgs :
              /\ ( C24_SemValor(args) /\ addreceita(u, args) )
                    => C24_SoAjuda(u, "uso_addreceita")
              /\ ( C24_SemValor(args) /\ fixo(u, args) ) => C24_SoAjuda(u, "uso_fixo")
              /\ ( C24_SemValor(args) /\ addmeta(u, args) )
                    => C24_SoAjuda(u, "uso_addmeta")
              /\ ( C24_SemValor(args) /\ orcamento_cmd(u, args) )
                    => C24_SoAjuda(u, "uso_orcamento")
        /\ \A args \in ValeArgs :
              ( C24_SemValor(args) /\ vale(u, args) ) => C24_SoAjuda(u, "uso_vale")
        /\ \A args \in LembreteArgs :
              ( C24_DiaInvalido(args, 1) /\ addlembrete(u, args) )
                    => C24_SoAjuda(u, "uso_addlembrete")
        /\ \A args \in RecorrenteArgs :
              ( ( C24_SemValor(args) \/ C24_DiaInvalido(args, 2) )
                /\ addrecorrente(u, args) ) => C24_SoAjuda(u, "uso_addrecorrente")
    ]_vars

\* C24 witness: a day out of range was answered with the usage hint while the
\* user had a pending draft and rows were stored.
C24_Witness ==
    /\ reply = [to |-> "u1", kind |-> "uso_addrecorrente"]
    /\ HasPending("u1")
    /\ receitas # <<>> /\ lembretes # <<>> /\ recorrentes = <<>>


\* ------------------------------------------------ claims: awaiting category

\* C25: while a user's draft waits for its category, a plain-text message from
\* that user leaves the draft as it is and commits no row.
C25_Suspenso ==
    [][\A u \in Users, text \in TextosMensagem, rs \in RespostasMensagem :
        ( /\ PendingFlag(u, "waiting_for_category")
          /\ handle_message(u, text, rs) ) =>
            /\ user_data'[u] = user_data[u]
            /\ ledger' = ledger
    ]_vars

\* C25: the same for the texts the interpreter does not understand.
C25_NaoEntendido ==
    [][\A u \in Users, text \in TextosMensagem :
        ( /\ PendingFlag(u, "waiting_for_category")
          /\ handle_message(u, text, <<Excecao, Excecao>>) ) =>
            /\ user_data'[u] = user_data[u]
            /\ ledger' = ledger
    ]_vars


\* ---------------------------------------------------- claims: monthly report

\* The month and the year of today, as /relatorio_mes takes them.
C26_Mes == MesAno(agora).mes

C26_Ano == MesAno(agora).ano + 2024

\* Every row of t is dated in the current month.
C26_DoMes(t) == SumMes(t, C26_Mes, C26_Ano) = SumValor(t)

\* C26: the totals and the balance of /relatorio count the rows dated in the
\* current month and year only, as /relatorio_mes does for that month.
C26_MesAtual ==
    [][\A u \in Users :
        relatorio(u) =>
            /\ reply'.receitas = SumMes(receitas, C26_Mes, C26_Ano)
            /\ reply'.receitas_parceiro = SumMes(receitas_parceiro, C26_Mes, C26_Ano)
            /\ reply'.vales = SumMes(vales, C26_Mes, C26_Ano)
            /\ reply'.gastos = SumMes(gastos, C26_Mes, C26_Ano)
            /\ reply'.fixos = SumMes(fixos, C26_Mes, C26_Ano)
            /\ reply'.saldo =
                    SumMes(receitas, C26_Mes, C26_Ano)
                        + SumMes(receitas_parceiro, C26_Mes, C26_Ano)
                        + SumMes(vales, C26_Mes, C26_Ano)
                        - SumMes(gastos, C26_Mes, C26_Ano)
                        - SumMes(fixos, C26_Mes, C26_Ano)
    ]_vars

\* C26: the same while every row is dated in the current month.
C26_SoDoMes ==
    [][\A u \in Users :
        ( /\ \A t \in {receitas, receitas_parceiro, vales, gastos, fixos} : C26_DoMes(t)
          /\ relatorio(u) ) =>
            /\ reply'.gastos = SumMes(gastos, C26_Mes, C26_Ano)
            /\ reply'.saldo =
                    SumMes(receitas, C26_Mes, C26_Ano)
                        + SumMes(receitas_parceiro, C26_Mes, C26_Ano)
                        + SumMes(vales, C26_Mes, C26_Ano)
                        - SumMes(gastos, C26_Mes, C26_Ano)
                        - SumMes(fixos, C26_Mes, C26_Ano)
    ]_vars


\* ------------------------------------------------------ a press delivered again

\* button_handler on a callback query of data `data` whose message no longer
\* shows the buttons (the press is delivered a second time, or comes from a
\* client that still shows them): lines 624-634 read the data only.
callback_repetido(u, data) ==
    LET data_parts == Split(data, "|") IN
    /\ IF Len(data_parts) < 3 \/ ~ParseFloat(data_parts[2]).ok
       THEN UNCHANGED <<user_data, reply>>
       ELSE /\ user_data' =
                [user_data EXCEPT ![u] =
                    [pending_gasto |->
                        [valor |-> Centavos(ParseFloat(data_parts[2])),
                         descricao |-> data_parts[3],
                         categoria |-> data_parts[1],
                         waiting_for_date |-> TRUE]]]
            /\ reply' = [to |-> u, kind |-> "quando_foi"]
    /\ UNCHANGED <<env, posts, chat, ledger, probe>>

\* One user sends one /addgasto, and nothing but button presses and date
\* answers after it; the press of a committed expense may be delivered again.
NextRepetido ==
    \/ \E u \in Dialogantes, args \in FaturaArgs :
            /\ reply = SemResposta
            /\ addgasto(u, args)
    \/ \E u \in Dialogantes : \E k \in chat[u] : \E c \in Categorias :
            button_handler(u, k, c)
    \/ \E u \in Dialogantes, text \in { <<"hoje">>, <<"ontem">>, <<"amanhã">> } :
            /\ PendingFlag(u, "waiting_for_date")
            /\ Len(gastos) < MaxGastosFatura
            /\ handle_message(u, text, <<Excecao, Excecao>>)
    \/ \E u \in Dialogantes : \E i \in 1..Len(gastos) :
            /\ user_data[u] = <<>>
            /\ callback_repetido(u, CallbackData(gastos[i].categoria[1], gastos[i].valor,
                                                 gastos[i].descricao))

SpecRepetido == Init /\ [][NextRepetido]_vars

\* ------------------------------------------------ claims: committed once

\* C27: every draft is committed at most once: where one draft was created,
\* gastos holds at most one row.
C27_UmaVez == Len(gastos) <= 1

\* C27: a category button delivered again after its draft was committed does
\* not put the user back in AwaitingDate.
C27_SemVolta ==
    [][\A u \in Users : \A i \in 1..Len(gastos) :
        ( /\ user_data[u] = <<>>
          /\ callback_repetido(u, CallbackData(gastos[i].categoria[1], gastos[i].valor,
                                               gastos[i].descricao)) )
            => ~PendingFlag(u, "waiting_for_date")'
    ]_vars


\* ------------------------------------------- two users and the food voucher

\* Two users share the ledger: each tops the voucher up and pays from it, in
\* every order of their updates.  A handler has no await between its first
\* query and its commit (lines 666-697), and the updates are handled one at a
\* time, so each handler is one step.
NextVale ==
    \/ \E u \in Users :
            /\ Len(vales) < MaxVales
            /\ vale(u, << Cinquenta >>)
    \/ \E u \in Users, args \in FaturaArgs :
            /\ user_data[u] = <<>>
            /\ chat[u] = {}
            /\ addgasto(u, args)
    \/ \E u \in Users : \E k \in chat[u] : button_handler(u, k, "alimentação")
    \/ \E u \in Users :
            /\ PendingFlag(u, "waiting_for_date")
            /\ Len(gastos) < MaxGastosFatura
            /\ handle_message(u, <<"hoje">>, <<Excecao, Excecao>>)

SpecVale == Init /\ [][NextVale]_vars

\* ---------------------------------------------------- claims: voucher balance

C29_IdaEVolta ==
    [][\A u \in Users : \A k \in chat[u] : \A c \in Categorias :
        button_handler(u, k, c) =>
            /\ PendingFlag(u, "waiting_for_date")'
            /\ Rascunho(u)' = <<k.valor, k.descricao>>
    ]_vars

\* C29: the same for the descriptions that hold no "|".
C29_DescricaoSimples ==
    [][\A u \in Users : \A k \in chat[u] : \A c \in Categorias :
        ( ~Contains(k.descricao, "|") /\ button_handler(u, k, c) ) =>
            /\ PendingFlag(u, "waiting_for_date")'
            /\ Rascunho(u)' = <<k.valor, k.descricao>>
    ]_vars


\* --------------------------------------------------- claims: dialogue states

\* The four categories as a draft or a row records them.
C30_Categorias == { <<c>> : c \in Categorias }

\* C30: a pending draft is in exactly one of two states, waiting for its
\* category with none recorded, or waiting for its date with one of the four
\* categories recorded; and every gastos row has one of the four categories.
C30_DoisEstados ==
    /\ \A u \in Users :
          HasPending(u) =>
            LET p == user_data[u].pending_gasto IN
            \/ /\ DOMAIN p = {"valor", "descricao", "waiting_for_category"}
               /\ p.waiting_for_category
            \/ /\ DOMAIN p = {"valor", "descricao", "categoria", "waiting_for_date"}
               /\ p.waiting_for_date
               /\ p.categoria \in C30_Categorias
    /\ \A i \in 1..Len(gastos) : gastos[i].categoria \in C30_Categorias

\* C30 witness: one draft was committed with its category, and the next one
\* waits for its date with a category recorded.
C30_Witness ==
    /\ Len(gastos) = 1 /\ gastos[1].categoria = <<"pix">>
    /\ PendingFlag("u1", "waiting_for_date")
    /\ user_data["u1"].pending_gasto.categoria = <<"débito">>


====
